---------------------------- MODULE Spec2Model ----------------------------
(***************************************************************************)
(* Availability resolution engine of sunrise-reserve                       *)
(* (src/src/availability.ts with the keyword tables of the constants       *)
(* module, src/src/notifier.ts lines 141-282).                             *)
(*                                                                         *)
(* A string is a sequence of UTF-16 code units, written \Hxxxx.  All text  *)
(* of the model lies in the Basic Multilingual Plane, so a code unit is a  *)
(* code point.                                                             *)
(***************************************************************************)
EXTENDS Integers, Sequences, FiniteSets

VARIABLES
  fn,    \* the engine function being invoked, "idle" between invocations
  arg,   \* its argument
  ret    \* its return value

\* one call of checkAvailability
VARIABLES
  settings,      \* the settings it is called with
  maxRetries,    \* its second parameter
  pc,            \* where the call stands, "off" when there is none
  trains,        \* the trains to search, line 360
  attempt,       \* the loop variable of line 364
  browser,       \* the variable of line 361: "null" or "set"
  openBrowsers,  \* launched browsers that have not been closed
  pages,         \* what each page of this attempt has loaded
  trainIndex,    \* the loop variable index of line 374, from 1
  trainResults,  \* the array of line 372
  delays,        \* how often the wait of line 502 was started
  failedCloses,  \* calls of browser.close() that threw
  result         \* << >> or <<the value returned>>

\* the monitoring loop of startMonitoring
VARIABLES
  monitor,            \* "off", "start", "initialCheck", "failed" or "armed"
  notificationType,   \* settings.notificationType
  now,                \* the local clock, in seconds since midnight of day 0
  shutdownTime,       \* the instant getNextShutdownTime returned
  shutdownTimer,      \* the timeout of line 188
  interval,           \* intervalId, line 236: "unset", "set" or "cleared"
  maintenanceTimer,   \* the variable of line 184: "null" or "set"
  pendingMaintenance, \* timeouts of line 206 neither fired nor cleared
  maintenanceEnd,     \* the instant they are due
  performChecks,      \* calls of performCheck so far
  checking,           \* invocations of performCheck awaiting checkAvailability
  checksStarted,      \* calls of checkAvailability so far
  checksCompleted,    \* calls of checkAvailability that have returned
  lastCheckAt,        \* the clock at the latest call of checkAvailability
  lastCheck,          \* the result the latest completed call returned
  notifying,          \* invocations awaiting notifyAvailability
  notifyCalls,        \* calls of notifyAvailability so far
  lastNotify,         \* the rooms passed to the latest of them
  foundCount,         \* the variable of line 183
  checksFound,        \* completed checks that found availability
  sigints,            \* SIGINT signals delivered so far
  exiting,            \* handlers awaiting notifyShutdown
  shutdownNotices,    \* the found counts passed to notifyShutdown, in order
  exitCode            \* "running" until the process ends

engineVars == <<fn, arg, ret>>

timerVars ==
  <<shutdownTime, shutdownTimer, interval, maintenanceTimer,
    pendingMaintenance, maintenanceEnd>>

progressVars ==
  <<performChecks, checking, checksStarted, checksCompleted, lastCheckAt,
    lastCheck>>

notifyVars == <<notifying, notifyCalls, lastNotify, foundCount, checksFound>>

exitVars == <<sigints, exiting, shutdownNotices, exitCode>>

monitorVars ==
  <<monitor, notificationType, now, timerVars, progressVars, notifyVars,
    exitVars>>

checkVars ==
  <<settings, maxRetries, pc, trains, attempt, browser, openBrowsers, pages,
    trainIndex, trainResults, delays, failedCloses, result>>

vars == <<engineVars, checkVars, monitorVars>>

(***************************************************************************)
(* Bounds of the explored inputs.                                          *)
(***************************************************************************)
MaxFragments == 3   \* fragments concatenated into one input text
MaxIcons == 2       \* icon indicators of one row snapshot
MaxAttributes == 2  \* attribute indicators of one row snapshot
MaxResolutions == 3 \* resolutions handed to the selector
MaxRows == 2        \* table rows of one search root

(***************************************************************************)
(* String.prototype.normalize('NFKC'), availability.ts line 51, restricted *)
(* to the code points the model uses.  The only combining mark among them  *)
(* is U+3099 (combining voiced sound mark), so canonical reordering never  *)
(* applies and a mark composes only with the character right before it.    *)
(***************************************************************************)
COMBINING_VOICED_SOUND_MARK == \H3099

\* kana whose voiced form is the next code point (UnicodeData.txt)
voicedNextBases ==
  { \H304B, \H304D, \H304F, \H3051, \H3053, \H3055, \H3057, \H3059, \H305B,
    \H305D, \H305F, \H3061, \H3064, \H3066, \H3068, \H306F, \H3072, \H3075,
    \H3078, \H307B, \H309D, \H30AB, \H30AD, \H30AF, \H30B1, \H30B3, \H30B5,
    \H30B7, \H30B9, \H30BB, \H30BD, \H30BF, \H30C1, \H30C4, \H30C6, \H30C8,
    \H30CF, \H30D2, \H30D5, \H30D8, \H30DB, \H30FD }

\* kana whose voiced form lies elsewhere
voicedFarBases == { \H3046, \H30A6, \H30EF, \H30F0, \H30F1, \H30F2 }

voicedBases == voicedNextBases \cup voicedFarBases

\* primary composite of <<base, U+3099>>
voicedForm(base) ==
  CASE base \in voicedNextBases -> base + 1
    [] base = \H3046 -> \H3094
    [] base = \H30A6 -> \H30F4
    [] base \in { \H30EF, \H30F0, \H30F1, \H30F2 } -> base + 8

voicedComposites == { voicedForm(b) : b \in voicedBases }

\* full compatibility decomposition of one code point
decomposeCodePoint(c) ==
  CASE c = \H3000 -> << \H0020 >>                    \* ideographic space
    [] c = \H00A0 -> << \H0020 >>                    \* no-break space
    [] c = \HFF08 -> << \H0028 >>                    \* fullwidth (
    [] c = \HFF09 -> << \H0029 >>                    \* fullwidth )
    [] c = \HFF0D -> << \H002D >>                    \* fullwidth hyphen-minus
    [] c = \HFF5E -> << \H007E >>                    \* fullwidth tilde
    [] c = \HFF65 -> << \H30FB >>                    \* halfwidth middle dot
    [] c = \HFF89 -> << \H30CE >>                    \* halfwidth katakana no
    [] c = \HFF8B -> << \H30D2 >>                    \* halfwidth katakana hi
    [] c = \HFF9E -> << COMBINING_VOICED_SOUND_MARK >> \* halfwidth voiced mark
    [] c = \HFFEE -> << \H25CB >>                    \* halfwidth white circle
    [] c = \H2011 -> << \H2010 >>                    \* non-breaking hyphen
    [] c \in voicedComposites ->
         << CHOOSE b \in voicedBases : voicedForm(b) = c,
            COMBINING_VOICED_SOUND_MARK >>
    [] OTHER -> << c >>

RECURSIVE decompose(_)
decompose(s) ==
  IF s = << >> THEN << >>
  ELSE decomposeCodePoint(Head(s)) \o decompose(Tail(s))

\* canonical composition: out is the composed prefix, rest what is left
RECURSIVE composeInto(_, _)
composeInto(out, rest) ==
  IF rest = << >> THEN out
  ELSE LET c == Head(rest)
           n == Len(out)
       IN IF /\ c = COMBINING_VOICED_SOUND_MARK
             /\ n > 0
             /\ out[n] \in voicedBases
          THEN composeInto([out EXCEPT ![n] = voicedForm(out[n])], Tail(rest))
          ELSE composeInto(Append(out, c), Tail(rest))

normalizeNFKC(value) == composeInto(<< >>, decompose(value))

(***************************************************************************)
(* normalizeForSearch, availability.ts lines 49-54.                        *)
(***************************************************************************)
\* the class [\s　] of line 52: ECMAScript WhiteSpace and LineTerminator
whitespaceClass ==
  { \H0009, \H000A, \H000B, \H000C, \H000D, \H0020, \H00A0, \H1680,
    \H2028, \H2029, \H202F, \H205F, \H3000, \HFEFF } \cup (\H2000 .. \H200A)

\* the class [()（）・･\-~〜―‐] of line 53
punctuationClass ==
  { \H0028, \H0029, \HFF08, \HFF09, \H30FB, \HFF65, \H002D, \H007E,
    \H301C, \H2015, \H2010 }

\* String.prototype.replace(/[class]/g, '')
removeClass(s, class) == SelectSeq(s, LAMBDA c : c \notin class)

normalizeForSearch(value) ==
  removeClass(removeClass(normalizeNFKC(value), whitespaceClass),
              punctuationClass)

(***************************************************************************)
(* Keyword tables, notifier.ts lines 186-231.                              *)
(***************************************************************************)
POSITIVE_KEYWORDS ==
  << <<\H7A7A, \H5E2D, \H3042, \H308A>>,  \* 1: 空席あり
     <<\H7A7A, \H5E2D, \H6709, \H308A>>,  \* 2: 空席有り
     <<\H7A7A, \H5E2D, \H304C, \H3042, \H308A, \H307E, \H3059>>,  \* 3: 空席があります
     <<\H7A7A, \H5E2D, \H3054, \H3056, \H3044, \H307E, \H3059>>,  \* 4: 空席ございます
     <<\H7A7A, \H5E2D, \H6709>>,  \* 5: 空席有
     <<\H6B8B, \H5E2D, \H3042, \H308A>>,  \* 6: 残席あり
     <<\H6B8B, \H5E2D, \H6709, \H308A>>,  \* 7: 残席有り
     <<\H6B8B, \H5E2D, \H50C5, \H304B>>,  \* 8: 残席僅か
     <<\H6B8B, \H5E2D, \H308F, \H305A, \H304B>>,  \* 9: 残席わずか
     <<\H6B8B, \H308A, \H308F, \H305A, \H304B>>,  \* 10: 残りわずか
     <<\H6B8B, \H308A, \H50C5, \H304B>>,  \* 11: 残り僅か
     <<\H7A7A, \H5E2D, \H25EF>>,  \* 12: 空席◯
     <<\H7A7A, \H5E2D, \H25CB>>,  \* 13: 空席○
     <<\H7A7A, \H5E2D, \H25CE>>,  \* 14: 空席◎
     <<\H7A7A, \H5E2D, \H25B3>>,  \* 15: 空席△
     <<\H6B8B, \H5E2D, \H25EF>>,  \* 16: 残席◯
     <<\H6B8B, \H5E2D, \H25CB>>,  \* 17: 残席○
     <<\H6B8B, \H5E2D, \H25CE>>,  \* 18: 残席◎
     <<\H25CB>>,  \* 19: ○
     <<\H25CE>>,  \* 20: ◎
     <<\H25EF>>,  \* 21: ◯
     <<\H25B3>> >>  \* 22: △

NEGATIVE_KEYWORDS ==
  << <<\H7A7A, \H5E2D, \H306A, \H3057>>,  \* 1: 空席なし
     <<\H7A7A, \H5E2D, \H306F, \H3042, \H308A, \H307E, \H305B, \H3093>>,  \* 2: 空席はありません
     <<\H7A7A, \H5E2D, \H3054, \H3056, \H3044, \H307E, \H305B, \H3093>>,  \* 3: 空席ございません
     <<\H7A7A, \H5E2D, \H3042, \H308A, \H307E, \H305B, \H3093>>,  \* 4: 空席ありません
     <<\H7A7A, \H5E2D, \H3042, \H308A, \H307E, \H305B, \H3093, \H3067, \H3057, \H305F>>,  \* 5: 空席ありませんでした
     <<\H7A7A, \H5E2D, \H3042, \H308A, \H307E, \H305B, \H3093, \H3067, \H3057, \H305F, \H3002>>,  \* 6: 空席ありませんでした。
     <<\H7A7A, \H5E2D, \H304C, \H3042, \H308A, \H307E, \H305B, \H3093>>,  \* 7: 空席がありません
     <<\H7A7A, \H5E2D, \H7121, \H3057>>,  \* 8: 空席無し
     <<\H6B8B, \H5E2D, \H306A, \H3057>>,  \* 9: 残席なし
     <<\H6E80, \H5E2D>>,  \* 10: 満席
     <<\H767A, \H58F2, \H7D42, \H4E86>>,  \* 11: 発売終了
     <<\H8CA9, \H58F2, \H7D42, \H4E86>>,  \* 12: 販売終了
     <<\H53D6, \H6271, \H3044, \H3067, \H304D, \H307E, \H305B, \H3093>>,  \* 13: 取扱いできません
     <<\H53D6, \H6271, \H3067, \H304D, \H307E, \H305B, \H3093>>,  \* 14: 取扱できません
     <<\H53D7, \H4ED8, \H7D42, \H4E86>>,  \* 15: 受付終了
     <<\H6E80, \H4E86>>,  \* 16: 満了
     <<\H7533, \H8FBC, \H4E0D, \H53EF>>,  \* 17: 申込不可
     <<\H53D7, \H4ED8, \H4E0D, \H53EF>>,  \* 18: 受付不可
     <<\H00D7>> >>  \* 19: ×

(***************************************************************************)
(* Keyword classifier, availability.ts lines 46-105.                       *)
(***************************************************************************)
\* Array.prototype.map over a sequence
RECURSIVE mapKeywordEntry(_)
mapKeywordEntry(keywords) ==
  IF keywords = << >> THEN << >>
  ELSE << [raw |-> Head(keywords),
           normalized |-> normalizeForSearch(Head(keywords))] >>
       \o mapKeywordEntry(Tail(keywords))

\* createKeywordEntries without the filter of line 63
createKeywordEntries_unfiltered(keywords) == mapKeywordEntry(keywords)

createKeywordEntries(keywords) ==
  SelectSeq(mapKeywordEntry(keywords), LAMBDA entry : entry.normalized # << >>)

POSITIVE_KEYWORD_ENTRIES == createKeywordEntries(POSITIVE_KEYWORDS)
NEGATIVE_KEYWORD_ENTRIES == createKeywordEntries(NEGATIVE_KEYWORDS)

\* String.prototype.includes
includes(text, part) ==
  \E i \in 0 .. (Len(text) - Len(part)) :
    SubSeq(text, i + 1, i + Len(part)) = part

\* the entry the loop of lines 68-72 returns, as << >> (null) or <<entry>>
RECURSIVE findKeywordMatchFrom(_, _, _)
findKeywordMatchFrom(normalizedText, entries, i) ==
  IF i > Len(entries) THEN << >>
  ELSE IF entries[i].normalized # << >>
          /\ includes(normalizedText, entries[i].normalized)
       THEN << entries[i] >>
       ELSE findKeywordMatchFrom(normalizedText, entries, i + 1)

\* findKeywordMatch returning the longest matching entry instead of the
\* first one in declared order
findKeywordMatch_longest(normalizedText, entries) ==
  LET hits == { i \in 1 .. Len(entries) :
                  /\ entries[i].normalized # << >>
                  /\ includes(normalizedText, entries[i].normalized) }
  IN IF normalizedText = << >> \/ hits = { } THEN << >>
     ELSE << entries[CHOOSE i \in hits : \A j \in hits :
                       \/ Len(entries[j].normalized) < Len(entries[i].normalized)
                       \/ /\ Len(entries[j].normalized) = Len(entries[i].normalized)
                          /\ i <= j] >>

findKeywordMatch(normalizedText, entries) ==
  IF normalizedText = << >> THEN << >>
  ELSE findKeywordMatchFrom(normalizedText, entries, 1)

\* analyzeNormalizedText scanning the POSITIVE entries before the NEGATIVE
analyzeNormalizedText_positiveFirst(normalizedText) ==
  IF normalizedText = << >> THEN [status |-> "unknown"]
  ELSE LET negativeMatch == findKeywordMatch(normalizedText, NEGATIVE_KEYWORD_ENTRIES)
           positiveMatch == findKeywordMatch(normalizedText, POSITIVE_KEYWORD_ENTRIES)
       IN IF positiveMatch # << >>
          THEN [status |-> "available", keyword |-> positiveMatch[1].raw]
          ELSE IF negativeMatch # << >>
               THEN [status |-> "unavailable", keyword |-> negativeMatch[1].raw]
               ELSE [status |-> "unknown"]

analyzeNormalizedText(normalizedText) ==
  IF normalizedText = << >> THEN [status |-> "unknown"]
  ELSE LET negativeMatch == findKeywordMatch(normalizedText, NEGATIVE_KEYWORD_ENTRIES)
           positiveMatch == findKeywordMatch(normalizedText, POSITIVE_KEYWORD_ENTRIES)
       IN IF negativeMatch # << >>
          THEN [status |-> "unavailable", keyword |-> negativeMatch[1].raw]
          ELSE IF positiveMatch # << >>
               THEN [status |-> "available", keyword |-> positiveMatch[1].raw]
               ELSE [status |-> "unknown"]

analyzeTextForAvailability(text) ==
  IF text = << >> THEN [status |-> "unknown"]
  ELSE LET normalized == normalizeForSearch(text)
       IN IF normalized = << >> THEN [status |-> "unknown"]
          ELSE analyzeNormalizedText(normalized)

(***************************************************************************)
(* Snapshot resolver, availability.ts lines 137-190.                       *)
(***************************************************************************)
\* Array.prototype.map(normalizeForSearch).filter(Boolean) into a Set
createNormalizedSet(keywords) ==
  { normalizeForSearch(keywords[i]) : i \in 1 .. Len(keywords) } \ { << >> }

NEGATIVE_ICON_TEXTS ==
  createNormalizedSet(<< <<\H6B8B, \H5E2D, \H306A, \H3057>>,   \* 残席なし
                         <<\H7A7A, \H5E2D, \H306A, \H3057>>,   \* 空席なし
                         <<\H6E80, \H5E2D>> >>)                \* 満席

isNegativeIconIndicator(indicator) ==
  LET normalized == normalizeForSearch(indicator)
  IN IF normalized = << >> THEN FALSE
     ELSE \E negative \in NEGATIVE_ICON_TEXTS : includes(normalized, negative)

\* An optional string is << >> (undefined) or <<string>>; it is truthy when
\* it is defined and not the empty string.
truthy(optional) == optional # << >> /\ optional[1] # << >>

\* iconPass returning unavailable at the first negative icon
RECURSIVE iconPass_negativeBlocks(_, _, _)
iconPass_negativeBlocks(iconIndicators, i, negativeIndicator) ==
  IF i > Len(iconIndicators)
  THEN [returned |-> FALSE, negativeIndicator |-> negativeIndicator]
  ELSE LET indicator == iconIndicators[i]
       IN IF isNegativeIconIndicator(indicator)
          THEN [returned |-> TRUE,
                value |-> [status |-> "unavailable", indicator |-> indicator]]
          ELSE [returned |-> TRUE,
                value |-> [status |-> "available", indicator |-> indicator]]

\* iconPass without the guard of line 162: the last negative icon is kept
RECURSIVE iconPass_lastNegative(_, _, _)
iconPass_lastNegative(iconIndicators, i, negativeIndicator) ==
  IF i > Len(iconIndicators)
  THEN [returned |-> FALSE, negativeIndicator |-> negativeIndicator]
  ELSE LET indicator == iconIndicators[i]
       IN IF isNegativeIconIndicator(indicator)
          THEN iconPass_lastNegative(iconIndicators, i + 1, << indicator >>)
          ELSE [returned |-> TRUE,
                value |-> [status |-> "available", indicator |-> indicator]]

\* The loop of lines 159-169 from icon i on.  It either returns from the
\* function (returned, value) or leaves negativeIndicator to line 171.
RECURSIVE iconPass(_, _, _)
iconPass(iconIndicators, i, negativeIndicator) ==
  IF i > Len(iconIndicators)
  THEN [returned |-> FALSE, negativeIndicator |-> negativeIndicator]
  ELSE LET indicator == iconIndicators[i]
       IN IF isNegativeIconIndicator(indicator)
          THEN iconPass(iconIndicators, i + 1,
                        IF ~truthy(negativeIndicator) THEN << indicator >>
                        ELSE negativeIndicator)
          ELSE [returned |-> TRUE,
                value |-> [status |-> "available", indicator |-> indicator]]

\* analysis.keyword ?? fallback
keywordOr(analysis, fallback) ==
  IF "keyword" \in DOMAIN analysis THEN analysis.keyword ELSE fallback

\* attributePass examining only the first attribute indicator
attributePass_firstOnly(attributeIndicators, i) ==
  IF i > Len(attributeIndicators) THEN << >>
  ELSE LET indicator == attributeIndicators[i]
           analysis == analyzeTextForAvailability(indicator)
       IN IF analysis.status # "unknown"
          THEN << [status |-> analysis.status,
                   indicator |-> keywordOr(analysis, indicator)] >>
          ELSE << >>

\* The loop of lines 175-180 from attribute i on: << >> when it falls
\* through, <<resolution>> when it returns.
RECURSIVE attributePass(_, _)
attributePass(attributeIndicators, i) ==
  IF i > Len(attributeIndicators) THEN << >>
  ELSE LET indicator == attributeIndicators[i]
           analysis == analyzeTextForAvailability(indicator)
       IN IF analysis.status # "unknown"
          THEN << [status |-> analysis.status,
                   indicator |-> keywordOr(analysis, indicator)] >>
          ELSE attributePass(attributeIndicators, i + 1)

\* textPass without the test of line 184: the text is reported as indicator
\* whatever its classification
textPass_indicatorAlways(snapshot) ==
  IF "textContent" \in DOMAIN snapshot /\ snapshot.textContent # << >>
  THEN LET analysis == analyzeTextForAvailability(snapshot.textContent)
       IN [status |-> analysis.status,
           indicator |-> keywordOr(analysis, snapshot.textContent)]
  ELSE [status |-> "unknown"]

\* Lines 182-189; a snapshot without textContent has no such field.
textPass(snapshot) ==
  IF "textContent" \in DOMAIN snapshot /\ snapshot.textContent # << >>
  THEN LET analysis == analyzeTextForAvailability(snapshot.textContent)
       IN IF analysis.status # "unknown"
          THEN [status |-> analysis.status,
                indicator |-> keywordOr(analysis, snapshot.textContent)]
          ELSE [status |-> "unknown"]
  ELSE [status |-> "unknown"]

\* resolveAvailabilityFromSnapshot with the test of line 171 moved behind
\* the attribute and text passes: negative icons decide only when nothing
\* else does
resolveAvailabilityFromSnapshot_negativeLast(snapshot) ==
  LET icons == iconPass(snapshot.iconIndicators, 1, << >>)
      attributes == attributePass(snapshot.attributeIndicators, 1)
      text == textPass(snapshot)
  IN IF icons.returned THEN icons.value
     ELSE IF attributes # << >> THEN attributes[1]
          ELSE IF text.status # "unknown" THEN text
               ELSE IF truthy(icons.negativeIndicator)
                    THEN [status |-> "unavailable",
                          indicator |-> icons.negativeIndicator[1]]
                    ELSE text

resolveAvailabilityFromSnapshot(snapshot) ==
  LET icons == iconPass(snapshot.iconIndicators, 1, << >>)
      attributes == attributePass(snapshot.attributeIndicators, 1)
  IN IF icons.returned THEN icons.value
     ELSE IF truthy(icons.negativeIndicator)
          THEN [status |-> "unavailable",
                indicator |-> icons.negativeIndicator[1]]
          ELSE IF attributes # << >> THEN attributes[1]
               ELSE textPass(snapshot)

(***************************************************************************)
(* Room categories, notifier.ts lines 159-184.                             *)
(***************************************************************************)
ROOM_TYPES ==
  << [name |-> <<\H666E, \H901A, \H8ECA, \H0020, \H30CE, \H30D3, \H30CE, \H30D3, \H5EA7, \H5E2D>>,
      value |-> "nobinovi"],
     [name |-> <<\H0041, \H5BDD, \H53F0, \H500B, \H5BA4, \H0020, \H30B7, \H30F3, \H30B0, \H30EB, \H30C7, \H30E9, \H30C3, \H30AF, \H30B9>>,
      value |-> "single_deluxe"],
     [name |-> <<\H0042, \H5BDD, \H53F0, \H500B, \H5BA4, \H0020, \H30B7, \H30F3, \H30B0, \H30EB, \H30C4, \H30A4, \H30F3>>,
      value |-> "single_twin"],
     [name |-> <<\H0042, \H5BDD, \H53F0, \H500B, \H5BA4, \H0020, \H30B7, \H30F3, \H30B0, \H30EB>>,
      value |-> "single"],
     [name |-> <<\H0042, \H5BDD, \H53F0, \H500B, \H5BA4, \H0020, \H30BD, \H30ED>>,
      value |-> "solo"],
     [name |-> <<\H0042, \H5BDD, \H53F0, \H500B, \H5BA4, \H0020, \H30B5, \H30F3, \H30E9, \H30A4, \H30BA, \H30C4, \H30A4, \H30F3>>,
      value |-> "sunrise_twin"] >>
\* names: 普通車 ノビノビ座席, A寝台個室 シングルデラックス, B寝台個室 シングルツイン, B寝台個室 シングル, B寝台個室 ソロ, B寝台個室 サンライズツイン

ROOM_TYPE_FORM_VALUES ==
  [value \in { ROOM_TYPES[i].value : i \in 1 .. Len(ROOM_TYPES) } |->
     CASE value = "nobinovi" -> <<\H666E, \H901A, \H8ECA, \H30CE, \H30D3, \H30CE, \H30D3, \H5EA7, \H5E2D>>  \* 普通車ノビノビ座席
       [] value = "single_deluxe" -> <<\H30B7, \H30F3, \H30B0, \H30EB, \H30C7, \H30E9, \H30C3, \H30AF, \H30B9>>  \* シングルデラックス
       [] value = "single_twin" -> <<\H30B7, \H30F3, \H30B0, \H30EB, \H30C4, \H30A4, \H30F3>>  \* シングルツイン
       [] value = "single" -> <<\H30B7, \H30F3, \H30B0, \H30EB>>  \* シングル
       [] value = "solo" -> <<\H30BD, \H30ED>>  \* ソロ
       [] value = "sunrise_twin" -> <<\H30B5, \H30F3, \H30E9, \H30A4, \H30BA, \H30C4, \H30A4, \H30F3>>  \* サンライズツイン
     ]

ROOM_TYPE_KEYWORDS ==
  [value \in { ROOM_TYPES[i].value : i \in 1 .. Len(ROOM_TYPES) } |->
     CASE value = "nobinovi" ->
            << <<\H666E, \H901A, \H8ECA, \H0020, \H30CE, \H30D3, \H30CE, \H30D3, \H5EA7, \H5E2D>>,
               <<\H666E, \H901A, \H8ECA, \H30CE, \H30D3, \H30CE, \H30D3, \H5EA7, \H5E2D>>,
               <<\H30CE, \H30D3, \H30CE, \H30D3, \H5EA7, \H5E2D>> >>
            \* 普通車 ノビノビ座席 / 普通車ノビノビ座席 / ノビノビ座席
       [] value = "single_deluxe" ->
            << <<\H0041, \H5BDD, \H53F0, \H500B, \H5BA4, \H0020, \H30B7, \H30F3, \H30B0, \H30EB, \H30C7, \H30E9, \H30C3, \H30AF, \H30B9>>,
               <<\H30B7, \H30F3, \H30B0, \H30EB, \H30C7, \H30E9, \H30C3, \H30AF, \H30B9>>,
               <<\H30B7, \H30F3, \H30B0, \H30EB, \H30C7, \H30E9, \H30C3, \H30AF, \H30B9, \H0020, \H0041, \H5BDD, \H53F0, \H500B, \H5BA4>> >>
            \* A寝台個室 シングルデラックス / シングルデラックス / シングルデラックス A寝台個室
       [] value = "single_twin" ->
            << <<\H0042, \H5BDD, \H53F0, \H500B, \H5BA4, \H0020, \H30B7, \H30F3, \H30B0, \H30EB, \H30C4, \H30A4, \H30F3>>,
               <<\H30B7, \H30F3, \H30B0, \H30EB, \H30C4, \H30A4, \H30F3>>,
               <<\H30B7, \H30F3, \H30B0, \H30EB, \H30C4, \H30A4, \H30F3, \H0020, \H0042, \H5BDD, \H53F0, \H500B, \H5BA4>> >>
            \* B寝台個室 シングルツイン / シングルツイン / シングルツイン B寝台個室
       [] value = "single" ->
            << <<\H0042, \H5BDD, \H53F0, \H500B, \H5BA4, \H0020, \H30B7, \H30F3, \H30B0, \H30EB>>,
               <<\H30B7, \H30F3, \H30B0, \H30EB, \H0020, \H0042, \H5BDD, \H53F0, \H500B, \H5BA4>> >>
            \* B寝台個室 シングル / シングル B寝台個室
       [] value = "solo" ->
            << <<\H0042, \H5BDD, \H53F0, \H500B, \H5BA4, \H0020, \H30BD, \H30ED>>,
               <<\H30BD, \H30ED, \H0020, \H0042, \H5BDD, \H53F0, \H500B, \H5BA4>>,
               <<\H30BD, \H30ED>> >>
            \* B寝台個室 ソロ / ソロ B寝台個室 / ソロ
       [] value = "sunrise_twin" ->
            << <<\H0042, \H5BDD, \H53F0, \H500B, \H5BA4, \H0020, \H30B5, \H30F3, \H30E9, \H30A4, \H30BA, \H30C4, \H30A4, \H30F3>>,
               <<\H30B5, \H30F3, \H30E9, \H30A4, \H30BA, \H30C4, \H30A4, \H30F3>>,
               <<\H30B5, \H30F3, \H30E9, \H30A4, \H30BA, \H30C4, \H30A4, \H30F3, \H0020, \H0042, \H5BDD, \H53F0, \H500B, \H5BA4>> >>
            \* B寝台個室 サンライズツイン / サンライズツイン / サンライズツイン B寝台個室
     ]

(***************************************************************************)
(* Windowed keyword search, availability.ts lines 107-135 and the          *)
(* single-train variant, part_003 lines 46-77.                             *)
(***************************************************************************)
\* Array.from(new Set(values)): the values in insertion order, each once
RECURSIVE insertionOrder(_, _)
insertionOrder(values, n) ==
  IF n = 0 THEN << >>
  ELSE IF \E j \in 1 .. (n - 1) : values[j] = values[n]
       THEN insertionOrder(values, n - 1)
       ELSE Append(insertionOrder(values, n - 1), values[n])

arrayFromSet(values) == insertionOrder(values, Len(values))

getRoomKeywordCandidates(room) ==
  LET aliases == IF room.value \in DOMAIN ROOM_TYPE_KEYWORDS
                   THEN ROOM_TYPE_KEYWORDS[room.value]
                   ELSE << >>
  IN arrayFromSet(<< room.name >> \o aliases)

\* String.prototype.indexOf(part, position): 0-based, -1 when absent
indexOf(text, part, position) ==
  LET found == { i \in position .. (Len(text) - Len(part)) :
                   \A k \in 1 .. Len(part) : text[i + k] = part[k] }
  IN IF found = { } THEN -1
     ELSE CHOOSE i \in found : \A j \in found : i <= j

\* String.prototype.slice(start, end) for 0 <= start <= end <= length
slice(text, start, end) == SubSeq(text, start + 1, end)

\* the radius of the window around an occurrence, in code units
WINDOW_RADIUS == 160

SINGLE_TRAIN_WINDOW_RADIUS == 40

\* Math.max(0, index - radius); the variant reaches one code unit further
windowStart_oneMore(index, radius) ==
  IF index - radius - 1 > 0 THEN index - radius - 1 ELSE 0

windowStart(index, radius) ==
  IF index - radius > 0 THEN index - radius ELSE 0

windowEnd(normalizedBody, index, keyword, radius) ==
  IF index + Len(keyword) + radius < Len(normalizedBody)
    THEN index + Len(keyword) + radius
    ELSE Len(normalizedBody)

snippetAt(normalizedBody, index, keyword, radius) ==
  slice(normalizedBody, windowStart(index, radius),
        windowEnd(normalizedBody, index, keyword, radius))

\* the while loop of lines 120-133 from one occurrence on: << >> when the
\* occurrences of the keyword are exhausted, <<resolution>> on a return
RECURSIVE scanOccurrences(_, _, _)
scanOccurrences(normalizedBody, keyword, index) ==
  IF index = -1 THEN << >>
  ELSE LET analysis == analyzeNormalizedText(
                         snippetAt(normalizedBody, index, keyword, WINDOW_RADIUS))
       IN IF analysis.status # "unknown"
          THEN << [status |-> analysis.status, indicator |-> analysis.keyword] >>
          ELSE scanOccurrences(normalizedBody, keyword,
                               indexOf(normalizedBody, keyword, index + Len(keyword)))

\* one iteration of the for loop of lines 116-134; the variant looks at the
\* first occurrence of the keyword only
scanKeyword_firstOccurrence(normalizedBody, keyword) ==
  IF keyword = << >> \/ indexOf(normalizedBody, keyword, 0) = -1 THEN << >>
  ELSE LET analysis == analyzeNormalizedText(
                         snippetAt(normalizedBody, indexOf(normalizedBody, keyword, 0),
                                   keyword, WINDOW_RADIUS))
       IN IF analysis.status # "unknown"
          THEN << [status |-> analysis.status, indicator |-> analysis.keyword] >>
          ELSE << >>

scanKeyword(normalizedBody, keyword) ==
  IF keyword = << >> THEN << >>
  ELSE scanOccurrences(normalizedBody, keyword, indexOf(normalizedBody, keyword, 0))

RECURSIVE scanCandidates(_, _, _)
scanCandidates(normalizedBody, candidates, c) ==
  IF c > Len(candidates) THEN [status |-> "unknown"]
  ELSE LET found == scanKeyword(normalizedBody, candidates[c])
       IN IF found # << >> THEN found[1]
          ELSE scanCandidates(normalizedBody, candidates, c + 1)

resolveRoomAvailabilityFromHtml(normalizedBody, room) ==
  LET names == getRoomKeywordCandidates(room)
      candidates == [c \in 1 .. Len(names) |-> normalizeForSearch(names[c])]
  IN scanCandidates(normalizedBody, candidates, 1)

\* NORMALIZED_NEGATIVE_KEYWORDS.some(neg => neg && snippet.includes(neg))
someIncluded(snippet, entries) ==
  \E e \in 1 .. Len(entries) :
    entries[e].normalized # << >> /\ includes(snippet, entries[e].normalized)

\* the while loop of part_003 lines 59-73: << >> or <<status>>
RECURSIVE scanOccurrencesSingleTrain(_, _, _)
scanOccurrencesSingleTrain(normalizedBody, keyword, index) ==
  IF index = -1 THEN << >>
  ELSE LET snippet == snippetAt(normalizedBody, index, keyword,
                                SINGLE_TRAIN_WINDOW_RADIUS)
       IN IF someIncluded(snippet, NEGATIVE_KEYWORD_ENTRIES) THEN << "unavailable" >>
          ELSE IF someIncluded(snippet, POSITIVE_KEYWORD_ENTRIES) THEN << "available" >>
          ELSE scanOccurrencesSingleTrain(normalizedBody, keyword,
                 indexOf(normalizedBody, keyword, index + Len(keyword)))

RECURSIVE scanCandidatesSingleTrain(_, _, _)
scanCandidatesSingleTrain(normalizedBody, candidates, c) ==
  IF c > Len(candidates) THEN "unknown"
  ELSE LET found == IF candidates[c] = << >> THEN << >>
                    ELSE scanOccurrencesSingleTrain(normalizedBody, candidates[c],
                           indexOf(normalizedBody, candidates[c], 0))
       IN IF found # << >> THEN found[1]
          ELSE scanCandidatesSingleTrain(normalizedBody, candidates, c + 1)

\* resolveRoomAvailability of the single-train variant: the status only
resolveRoomAvailability(normalizedBody, room) ==
  LET names == getRoomKeywordCandidates(room)
      candidates == [c \in 1 .. Len(names) |-> normalizeForSearch(names[c])]
  IN scanCandidatesSingleTrain(normalizedBody, candidates, 1)

(***************************************************************************)
(* Trains to search, notifier.ts lines 243-280.                            *)
(***************************************************************************)
COMMON_ROUTE_STATIONS ==
  << <<\H6771, \H4EAC>>,
     <<\H6A2A, \H6D5C>>,
     <<\H5C0F, \H7530, \H539F>>,
     <<\H71B1, \H6D77>>,
     <<\H6CBC, \H6D25>>,
     <<\H5BCC, \H58EB>>,
     <<\H9759, \H5CA1>>,
     <<\H6D5C, \H677E>>,
     <<\H59EB, \H8DEF>>,
     <<\H4E09, \H30CE, \H5BAE>>,
     <<\H5927, \H962A>>,
     <<\H4EAC, \H90FD>>,
     <<\H5CA1, \H5C71>> >>
\* 東京 横浜 小田原 熱海 沼津 富士 静岡 浜松 姫路 三ノ宮 大阪 京都 岡山

TAKAMATSU == <<\H9AD8, \H677E>>  \* 高松

IZUMOSHI == <<\H51FA, \H96F2, \H5E02>>  \* 出雲市

\* Array.prototype.includes
arrayIncludes(array, value) == \E i \in 1 .. Len(array) : array[i] = value

\* determineTrainsToSearch testing 出雲市 before 高松
determineTrainsToSearch_izumoFirst(departure, arrival) ==
  IF arrayIncludes(COMMON_ROUTE_STATIONS, departure)
       /\ arrayIncludes(COMMON_ROUTE_STATIONS, arrival)
    THEN << "seto", "izumo" >>
  ELSE IF departure = IZUMOSHI \/ arrival = IZUMOSHI THEN << "izumo" >>
  ELSE IF departure = TAKAMATSU \/ arrival = TAKAMATSU THEN << "seto" >>
  ELSE << "seto", "izumo" >>

determineTrainsToSearch(departure, arrival) ==
  IF arrayIncludes(COMMON_ROUTE_STATIONS, departure)
       /\ arrayIncludes(COMMON_ROUTE_STATIONS, arrival)
    THEN << "seto", "izumo" >>
  ELSE IF departure = TAKAMATSU \/ arrival = TAKAMATSU THEN << "seto" >>
  ELSE IF departure = IZUMOSHI \/ arrival = IZUMOSHI THEN << "izumo" >>
  ELSE << "seto", "izumo" >>

(***************************************************************************)
(* Page navigation, availability.ts lines 287-317.  page.goto(url) answers *)
(* with no response object ("null"), a response whose ok() holds ("ok"),   *)
(* another response ("notOk"), or it throws ("throws").                    *)
(***************************************************************************)
FORM_URL == "form.html"

\* lines 288-292
candidateUrls(train) ==
  << << FORM_URL, "?train=", train >>,
     << FORM_URL, "#", train >>,
     << FORM_URL >> >>

\* the exception page.goto(url) throws
navigationError(url) == [name |-> "TimeoutError", url |-> url]

\* line 315
LOAD_FAILED == [name |-> "Error", url |-> << >>]

\* line 303 accepting only a response that is ok
gotoSucceeded_okOnly(response) == response = "ok"

\* line 303: !response || response.ok()
gotoSucceeded(response) == response \in { "null", "ok" }

\* the loop of lines 296-309 from the i-th candidate, then lines 311-315;
\* visited lists the URLs page.goto was called with
RECURSIVE navigateFrom(_, _, _, _, _)
navigateFrom(urls, responses, i, lastError, visited) ==
  IF i > Len(urls)
    THEN [kind |-> "raised",
          error |-> IF lastError # << >> THEN lastError[1] ELSE LOAD_FAILED,
          visited |-> visited]
    ELSE IF responses[i] = "throws"
           THEN navigateFrom(urls, responses, i + 1,
                             << navigationError(urls[i]) >>,
                             Append(visited, urls[i]))
           ELSE IF gotoSucceeded(responses[i])
                  THEN [kind |-> "returned", visited |-> Append(visited, urls[i])]
                  ELSE navigateFrom(urls, responses, i + 1, lastError,
                                    Append(visited, urls[i]))

navigateToTrainPage(train, responses) ==
  navigateFrom(candidateUrls(train), responses, 1, << >>, << >>)

(***************************************************************************)
(* Resolution selector, selectBestAvailabilityResolution.  The tests of    *)
(* src/unnamed/part_000 lines 63-100 import it from availability.ts, which *)
(* does not define it; it is modelled from section 4.5 of the              *)
(* specification.                                                          *)
(***************************************************************************)
\* the resolutions of a sequence that have the given status, in order
withStatus(resolutions, status) ==
  SelectSeq(resolutions, LAMBDA r : r.status = status)

\* selectBestAvailabilityResolution returning the first resolution that is
\* not unknown, whatever its tier
selectBestAvailabilityResolution_firstDecisive(resolutions) ==
  LET decisive == SelectSeq(resolutions, LAMBDA r : r.status # "unknown")
  IN IF decisive # << >> THEN decisive[1]
     ELSE IF resolutions # << >> THEN resolutions[1]
          ELSE [status |-> "unknown"]

selectBestAvailabilityResolution(resolutions) ==
  IF withStatus(resolutions, "available") # << >>
  THEN withStatus(resolutions, "available")[1]
  ELSE IF withStatus(resolutions, "unavailable") # << >>
       THEN withStatus(resolutions, "unavailable")[1]
       ELSE IF withStatus(resolutions, "unknown") # << >>
            THEN withStatus(resolutions, "unknown")[1]
            ELSE [status |-> "unknown"]

(***************************************************************************)
(* Row extraction and room lookup in the page, availability.ts lines       *)
(* 192-285.  A search root is the sequence of its table rows in document   *)
(* order and the facilitySelect radio buttons it holds.  A row carries the *)
(* images matched by 'td img', the other elements with an alt, aria-label  *)
(* or title attribute, and its inner text; an attribute that is missing is *)
(* the empty string.                                                       *)
(***************************************************************************)
RECURSIVE trimStart(_)
trimStart(s) ==
  IF s # << >> /\ s[1] \in whitespaceClass THEN trimStart(Tail(s)) ELSE s

RECURSIVE trimEnd(_)
trimEnd(s) ==
  IF s # << >> /\ s[Len(s)] \in whitespaceClass
    THEN trimEnd(SubSeq(s, 1, Len(s) - 1))
    ELSE s

\* String.prototype.trim
trim(s) == trimEnd(trimStart(s))

\* a || b || c on strings
firstTruthy(a, b, c) == IF a # << >> THEN a ELSE IF b # << >> THEN b ELSE c

\* lines 199-208
iconIndicatorsOf(row) ==
  SelectSeq([i \in 1 .. Len(row.images) |->
               firstTruthy(trim(row.images[i].alt),
                           trim(row.images[i].ariaLabel),
                           trim(row.images[i].title))],
            LAMBDA value : value # << >>)

\* lines 210-228
attributeIndicatorsOf(row) ==
  arrayFromSet(
    SelectSeq([e \in 1 .. Len(row.elements) |->
                 trim(firstTruthy(row.elements[e].alt,
                                  row.elements[e].ariaLabel,
                                  row.elements[e].title))],
              LAMBDA value : value # << >>))

\* rowLocator is the sequence of the rows the locator matches
extractAvailabilityFromRow(rowLocator) ==
  IF Len(rowLocator) = 0 THEN [status |-> "unknown"]
  ELSE LET row == rowLocator[1]
       IN resolveAvailabilityFromSnapshot(
            [iconIndicators |-> iconIndicatorsOf(row),
             attributeIndicators |-> attributeIndicatorsOf(row),
             textContent |-> trim(row.innerText)])

\* searchRoot.locator('input[type="radio"][name="facilitySelect"][value=...]')
radioLocator(searchRoot, formValue) ==
  SelectSeq(searchRoot.radios, LAMBDA radio : radio.value = formValue)

\* radioLocator.locator('xpath=ancestor::tr[1]'): radio.row is << >> for a
\* radio outside every row, else <<index of its row>>
containerLocator(searchRoot, radios) ==
  LET inRow == SelectSeq(radios, LAMBDA radio : radio.row # << >>)
  IN [i \in 1 .. Len(inRow) |-> searchRoot.rows[inRow[i].row[1]]]

\* radioLocator.locator('xpath=following::img[alt][1]'): radio.followingAlt
\* is << >> when no image with an alt attribute follows, else <<its alt>>
fallbackIcons(radios) ==
  LET followed == SelectSeq(radios, LAMBDA radio : radio.followingAlt # << >>)
  IN [i \in 1 .. Len(followed) |-> followed[i].followingAlt[1]]

\* searchRoot.locator('tr', { hasText: candidate })
rowsWithText(searchRoot, candidate) ==
  SelectSeq(searchRoot.rows, LAMBDA row : includes(row.innerText, candidate))

\* lines 250-272: <<resolution>> when the function returns there, else << >>
formControlStage(searchRoot, room) ==
  LET formValue == ROOM_TYPE_FORM_VALUES[room.value]
      radios == radioLocator(searchRoot, formValue)
      iconResult == extractAvailabilityFromRow(containerLocator(searchRoot, radios))
      alt == trim(fallbackIcons(radios)[1])
  IN IF formValue = << >> \/ Len(radios) = 0 THEN << >>
     ELSE IF iconResult.status # "unknown" THEN << iconResult >>
     ELSE IF Len(fallbackIcons(radios)) > 0 /\ alt # << >>
               /\ analyzeTextForAvailability(alt).status # "unknown"
          THEN << [status |-> analyzeTextForAvailability(alt).status,
                   indicator |-> alt] >>
          ELSE << >>

\* the loop of lines 275-282 from candidate c on
RECURSIVE aliasStage(_, _, _)
aliasStage(searchRoot, candidates, c) ==
  IF c > Len(candidates) THEN [status |-> "unknown"]
  ELSE IF trim(candidates[c]) = << >>
       THEN aliasStage(searchRoot, candidates, c + 1)
       ELSE LET rowResult == extractAvailabilityFromRow(
                               rowsWithText(searchRoot, candidates[c]))
            IN IF rowResult.status # "unknown" THEN rowResult
               ELSE aliasStage(searchRoot, candidates, c + 1)

\* what a stage returned or, when it did not return, what follows it
returnedOr(returned, following) ==
  IF returned # << >> THEN returned[1] ELSE following

resolveRoomAvailabilityFromPage(searchRoot, room) ==
  returnedOr(formControlStage(searchRoot, room),
             aliasStage(searchRoot, getRoomKeywordCandidates(room), 1))

\* lines 404-405 and 410-413: the status and indicator text of the room
\* after the windowed search; a missing indicator is a missing field.  The
\* variant keeps the indicator of the page lookup, as the single-train
\* checkAvailability does.
mergeFallback_pageIndicatorOnly(pageResult, fallbackResult) ==
  IF "indicator" \in DOMAIN pageResult
    THEN [status |-> fallbackResult.status, indicatorText |-> pageResult.indicator]
    ELSE [status |-> fallbackResult.status]

mergeFallback(pageResult, fallbackResult) ==
  LET pageIndicator == IF "indicator" \in DOMAIN pageResult
                         THEN << pageResult.indicator >> ELSE << >>
      fallbackIndicator == IF "indicator" \in DOMAIN fallbackResult
                             THEN << fallbackResult.indicator >> ELSE << >>
      indicatorText == IF ~ truthy(pageIndicator) /\ truthy(fallbackIndicator)
                         THEN fallbackIndicator ELSE pageIndicator
  IN IF indicatorText = << >> THEN [status |-> fallbackResult.status]
     ELSE [status |-> fallbackResult.status, indicatorText |-> indicatorText[1]]

\* line 408: normalizedSectionHtml || normalizedBody
fallbackSource(normalizedSectionHtml, normalizedBody) ==
  IF normalizedSectionHtml # << >> THEN normalizedSectionHtml ELSE normalizedBody

\* lines 404-414: the status and indicator text after the page lookup
\* returned pageResult
statusAfter(pageResult, source, roomInfo) ==
  IF pageResult.status = "unknown"
    THEN mergeFallback(pageResult, resolveRoomAvailabilityFromHtml(source, roomInfo))
    ELSE [status |-> pageResult.status, indicatorText |-> pageResult.indicator]

\* lines 416-421: the entry pushed to roomStatuses
roomStatusEntry(roomInfo, merged) ==
  IF "indicatorText" \in DOMAIN merged
    THEN [roomType |-> roomInfo.value, status |-> merged.status,
          indicatorText |-> merged.indicatorText]
    ELSE [roomType |-> roomInfo.value, status |-> merged.status]

\* lines 403-421 for one room
roomStatusOf(searchRoot, normalizedSectionHtml, normalizedBody, roomInfo) ==
  roomStatusEntry(
    roomInfo,
    statusAfter(resolveRoomAvailabilityFromPage(searchRoot, roomInfo),
                fallbackSource(normalizedSectionHtml, normalizedBody),
                roomInfo))

(***************************************************************************)
(* checkAvailability, availability.ts lines 359-510: what it computes.     *)
(***************************************************************************)
\* ROOM_TYPES.find(r => r.value === roomType): << >> when undefined
findRoomType(roomType) ==
  LET found == { i \in 1 .. Len(ROOM_TYPES) : ROOM_TYPES[i].value = roomType }
  IN IF found = { } THEN << >>
     ELSE << ROOM_TYPES[CHOOSE i \in found : \A j \in found : i <= j] >>

\* the loop of lines 396-422 from the r-th requested room type on; a loaded
\* page is its HTML content, its search root and the inner HTML of that root
RECURSIVE roomStatusesFrom(_, _, _)
roomStatusesFrom(page, roomTypes, r) ==
  IF r > Len(roomTypes) THEN << >>
  ELSE (IF findRoomType(roomTypes[r]) = << >> THEN << >>
        ELSE << roomStatusOf(page.searchRoot,
                             normalizeForSearch(page.sectionHtml),
                             normalizeForSearch(page.content),
                             findRoomType(roomTypes[r])[1]) >>)
         \o roomStatusesFrom(page, roomTypes, r + 1)

\* lines 443-447 from the t-th train result on
RECURSIVE availableEntriesFrom(_, _)
availableEntriesFrom(results, t) ==
  IF t > Len(results) THEN << >>
  ELSE LET available == SelectSeq(results[t].roomStatuses,
                                  LAMBDA s : s.status = "available")
       IN [i \in 1 .. Len(available) |->
             [train |-> results[t].train, roomType |-> available[i].roomType]]
            \o availableEntriesFrom(results, t + 1)

\* lines 443-449 and 454-485: the value returned by a completed attempt; the
\* variant lists a room once per train on which it is available
checkResult_perTrain(results) ==
  LET availableEntries == availableEntriesFrom(results, 1)
      availableRooms ==
        [i \in 1 .. Len(availableEntries) |-> availableEntries[i].roomType]
  IN IF Len(availableEntries) > 0
       THEN [hasAvailability |-> TRUE, availableRooms |-> availableRooms]
       ELSE [hasAvailability |-> FALSE, availableRooms |-> << >>]

checkResult(results) ==
  LET availableEntries == availableEntriesFrom(results, 1)
      availableRooms ==
        arrayFromSet([i \in 1 .. Len(availableEntries) |->
                        availableEntries[i].roomType])
  IN IF Len(availableEntries) > 0
       THEN [hasAvailability |-> TRUE, availableRooms |-> availableRooms]
       ELSE [hasAvailability |-> FALSE, availableRooms |-> << >>]

\* the steps at which an awaited call can reject
ThrowSites == { "launch", "context", "train", "close", "finish" }

\* where control goes when a step throws: every step of lines 365-486 is
\* inside the try block; the variant has the launch before it
handlerOf_launchOutsideTry(site) == IF site = "launch" THEN "raised" ELSE "catch"

handlerOf(site) == "catch"

(***************************************************************************)
(* The multiple-choice prompt, cli.ts lines 42-105, as a function of the   *)
(* lines the user enters: the answers are consumed one per prompt until    *)
(* the function returns, raises or waits for a line that is not there.     *)
(***************************************************************************)
COMMA == \H002C

HYPHEN_MINUS == \H002D

PLUS_SIGN == \H002B

DIGIT_ZERO == \H0030

isDigit(unit) == unit \in DIGIT_ZERO .. DIGIT_ZERO + 9

\* String.prototype.split with a one-unit separator
RECURSIVE split(_, _)
split(s, separator) ==
  IF \E i \in 1 .. Len(s) : s[i] = separator
    THEN LET at == CHOOSE i \in 1 .. Len(s) :
                     /\ s[i] = separator
                     /\ \A j \in 1 .. i - 1 : s[j] # separator
         IN << SubSeq(s, 1, at - 1) >> \o split(SubSeq(s, at + 1, Len(s)), separator)
    ELSE << s >>

\* the value of the leading decimal digits of s after value, as
\* << >> when s does not start with a digit and value is << >>
RECURSIVE digitsValue(_, _)
digitsValue(s, value) ==
  IF s # << >> /\ isDigit(s[1])
    THEN digitsValue(Tail(s),
                     << (IF value = << >> THEN 0 ELSE value[1]) * 10
                          + (s[1] - DIGIT_ZERO) >>)
    ELSE value

\* parseInt(s): leading white space and one sign are skipped, the longest
\* prefix of decimal digits is read; << >> is NaN
parseInt(s) ==
  LET unpadded == trimStart(s)
      negative == unpadded # << >> /\ unpadded[1] = HYPHEN_MINUS
      signed == unpadded # << >> /\ unpadded[1] \in { HYPHEN_MINUS, PLUS_SIGN }
      magnitude == digitsValue(IF signed THEN Tail(unpadded) ELSE unpadded, << >>)
  IN IF magnitude = << >> THEN << >>
     ELSE IF negative THEN << 0 - magnitude[1] >> ELSE magnitude

\* parseInt(s.trim()) - 1, line 72: NaN - 1 is NaN
toIndex(s) ==
  LET number == parseInt(trim(s))
  IN IF number = << >> THEN << >> ELSE << number[1] - 1 >>

\* the loop of lines 75-88 from the k-th index.  Both comparisons of line
\* 76 are false for NaN, so line 82 reads items[NaN], which is undefined,
\* and line 83 reads a property of it: a TypeError.
RECURSIVE forIndices(_, _, _, _)
forIndices(items, indices, k, selected) ==
  IF k > Len(indices) THEN [allValid |-> TRUE, raised |-> FALSE, selected |-> selected]
  ELSE LET index == indices[k]
       IN IF index # << >> /\ (index[1] < 0 \/ index[1] >= Len(items))
            THEN [allValid |-> FALSE, raised |-> FALSE, selected |-> selected]
            ELSE IF index = << >>
                   THEN [allValid |-> TRUE, raised |-> TRUE, selected |-> selected]
                   ELSE LET value == items[index[1] + 1].value
                        IN forIndices(items, indices, k + 1,
                                      IF arrayIncludes(selected, value)
                                        THEN selected
                                        ELSE Append(selected, value))

\* the loop of lines 56-102 from the n-th answer; said lists what was
\* printed in reply to each answer read
RECURSIVE promptFrom(_, _, _, _, _)
promptFrom(items, answers, n, selected, said) ==
  IF n > Len(answers)
    THEN [kind |-> "waiting", selected |-> selected, said |-> said]
  ELSE IF trim(answers[n]) = << >>
    THEN IF selected = << >>
           THEN promptFrom(items, answers, n + 1, selected,
                           Append(said, "selectAtLeastOne"))
           ELSE [kind |-> "returned", selected |-> selected,
                 said |-> Append(said, "done")]
  ELSE LET split_ == split(answers[n], COMMA)
           indices == [k \in 1 .. Len(split_) |-> toIndex(split_[k])]
           looped == forIndices(items, indices, 1, selected)
       IN IF looped.raised
            THEN [kind |-> "raised", selected |-> looped.selected,
                  said |-> Append(said, "TypeError")]
            ELSE promptFrom(items, answers, n + 1, looped.selected,
                            Append(said, IF looped.allValid
                                           THEN "currentSelection"
                                           ELSE "invalidNumber"))

selectMultipleFromList(items, answers) == promptFrom(items, answers, 1, << >>, << >>)

(***************************************************************************)
(* Input texts: concatenations of at most MaxFragments page fragments.     *)
(***************************************************************************)
Fragments ==
  { <<\H7A7A, \H5E2D, \H3042, \H308A>>,                        \* 空席あり
    <<\H7A7A, \H5E2D, \H3042, \H308A, \H307E, \H305B, \H3093>>, \* 空席ありません
    <<\H3067, \H3057, \H305F>>,                                \* でした
    <<\H6E80, \H5E2D>>,                                        \* 満席
    <<\H7A7A, \H5E2D, \H306A, \H3057>>,                        \* 空席なし
    <<\H25CB>>,                                                \* ○
    <<\H00D7>>,                                                \* ×
    <<\H25B2>>,                                                \* ▲
    <<\HFF0D>>,                                                \* －
    <<\H0020>>,                                                \* space
    <<\HFF8B>>,                                                \* ﾋ
    <<\HFF9E>> }                                               \* ﾞ

RECURSIVE Concatenations(_)
Concatenations(n) ==
  IF n = 0 THEN { << >> }
  ELSE LET shorter == Concatenations(n - 1)
       IN shorter \cup { t \o f : t \in shorter, f \in Fragments }

Texts == Concatenations(MaxFragments)

(***************************************************************************)
(* Input keyword lists for createKeywordEntries: at most MaxKeywords raw   *)
(* keywords, some of which normalize to the empty string.                  *)
(***************************************************************************)
MaxKeywords == 2

RawKeywords ==
  { <<\H7A7A, \H5E2D, \H3042, \H308A>>,  \* 空席あり
    <<\H6E80, \H5E2D>>,                  \* 満席
    <<\H25CB>>,                          \* ○
    <<\HFF0D>>,                          \* － normalizes to the empty string
    <<\H0020, \H3000>>,                  \* spaces normalize to the empty string
    <<\H30FB>> }                         \* ・ normalizes to the empty string

KeywordLists ==
  UNION { [1 .. n -> RawKeywords] : n \in 0 .. MaxKeywords }

(***************************************************************************)
(* Input stations for determineTrainsToSearch: two of the common section,  *)
(* the two branch termini and one station the tables do not list.          *)
(***************************************************************************)
Stations ==
  { <<\H6771, \H4EAC>>,          \* 東京
    <<\H5CA1, \H5C71>>,          \* 岡山
    TAKAMATSU,
    IZUMOSHI,
    <<\H7C73, \H5B50>> }         \* 米子

(***************************************************************************)
(* Input navigations: what page.goto does for each of the three candidate  *)
(* URLs.                                                                   *)
(***************************************************************************)
Navigations == [1 .. 3 -> { "null", "ok", "notOk", "throws" }]

(***************************************************************************)
(* Input answers for the multiple-choice prompt over the room types: at    *)
(* most MaxAnswers lines.                                                  *)
(***************************************************************************)
MaxAnswers == 3

AnswerLines ==
  { << >>,                                           \* empty line
    <<\H0020>>,                                      \* " "
    <<\H0031>>,                                      \* "1"
    <<\H0020, \H0032, \H0020, \H002C, \H0031>>,      \* " 2 ,1"
    <<\H0031, \H002C, \H0031>>,                      \* "1,1"
    <<\H0037>>,                                      \* "7", out of range
    <<\H0030>>,                                      \* "0", out of range
    <<\H0031, \H002C, \H0037>>,                      \* "1,7"
    <<\H0078>>,                                      \* "x"
    <<\H0032, \H0078>> }                             \* "2x"

Answers == UNION { [1 .. n -> AnswerLines] : n \in 0 .. MaxAnswers }

(***************************************************************************)
(* Input snapshots: the labels and texts of one candidate row.             *)
(***************************************************************************)
IconLabels ==
  { <<\H6B8B, \H5E2D, \H306A, \H3057>>,                        \* 残席なし
    <<\H6E80, \H5E2D>>,                                        \* 満席
    <<\H672C, \H65E5, \H6E80, \H0020, \H5E2D>>,                \* 本日満 席
    <<\H6B8B, \H5E2D, \H3042, \H308A>>,                        \* 残席あり
    <<\H00D7>>,                                                \* ×
    << >> }                                                    \* empty label

AttributeLabels ==
  { <<\H7A7A, \H5E2D, \H304C, \H3042, \H308A, \H307E, \H3059>>, \* 空席があります
    <<\H7A7A, \H5E2D, \H308F, \H305A, \H304B>>,                \* 空席わずか
    <<\H672C, \H65E5, \H306F, \H6E80, \H5E2D>>,                \* 本日は満席
    <<\H30CE, \H30D3, \H30CE, \H30D3, \H5EA7, \H5E2D>>,        \* ノビノビ座席
    <<\H0020>> }                                               \* space

RowTexts ==
  { << >>,                                                     \* empty
    <<\H3000>>,                                                \* ideographic space
    <<\H7A7A, \H5E2D, \H308F, \H305A, \H304B>>,                \* 空席わずか
    <<\H6E80, \H5E2D, \H3067, \H3059>>,                        \* 満席です
    <<\H6B8B, \H5E2D, \H3042, \H308A, \H306E, \H30C6, \H30B9, \H30C8>> } \* 残席ありのテスト

SeqsUpTo(S, n) == UNION { [1 .. k -> S] : k \in 0 .. n }

Snapshots ==
  LET rows == [iconIndicators : SeqsUpTo(IconLabels, MaxIcons),
               attributeIndicators : SeqsUpTo(AttributeLabels, MaxAttributes)]
  IN rows \cup { [iconIndicators |-> r.iconIndicators,
                  attributeIndicators |-> r.attributeIndicators,
                  textContent |-> t] : r \in rows, t \in RowTexts }

(***************************************************************************)
(* Input resolutions of the selector: the resolutions of candidate rows.   *)
(***************************************************************************)
RowResolutions ==
  { [status |-> "unknown"],
    [status |-> "unavailable", indicator |-> <<\H6E80, \H5E2D>>],               \* 満席
    [status |-> "unavailable", indicator |-> <<\H6B8B, \H5E2D, \H306A, \H3057>>], \* 残席なし
    [status |-> "available", indicator |-> <<\H7A7A, \H5E2D, \H3042, \H308A>>], \* 空席あり
    [status |-> "available", indicator |-> <<\H6B8B, \H5E2D, \H3042, \H308A>>] } \* 残席あり

(***************************************************************************)
(* Input haystacks of the windowed search: normalized HTML in which room   *)
(* names and availability signals stand a window radius apart.             *)
(***************************************************************************)
Pad(n) == [i \in 1 .. n |-> \H0078]                            \* x repeated

Signals ==
  { << >>,
    <<\H25CB>>,                                                \* ○
    <<\H6E80, \H5E2D>> }                                       \* 満席

FirstMentions ==
  { <<\H30BD, \H30ED>> }                                       \* ソロ

SecondMentions ==
  { << >>,
    <<\H30BD, \H30ED>>,                                        \* ソロ
    <<\H0042, \H5BDD, \H53F0, \H500B, \H5BA4, \H30BD, \H30ED>> } \* B寝台個室ソロ

Gaps(radius) == { radius - 2, radius - 1, radius }

Haystacks(radius) ==
  { before \o Pad(g1) \o m1 \o Pad(g2) \o between \o Pad(g3) \o m2 :
      before \in Signals, between \in Signals,
      m1 \in FirstMentions, m2 \in SecondMentions,
      g1 \in Gaps(radius), g2 \in Gaps(radius), g3 \in Gaps(radius) \cup { 0 } }

(***************************************************************************)
(* Input pages of the room lookup: table rows, the radio button of the     *)
(* room, and the HTML of the train section and of the whole page.          *)
(***************************************************************************)
noAttributes == [alt |-> << >>, ariaLabel |-> << >>, title |-> << >>]

Rows ==
  { \* B寝台個室 ソロ with an icon 満席
    [innerText |-> <<\H0042, \H5BDD, \H53F0, \H500B, \H5BA4, \H0020, \H30BD, \H30ED>>,
     images |-> << [noAttributes EXCEPT !.alt = <<\H6E80, \H5E2D>>] >>,
     elements |-> << >>],
    \* ソロ with an icon ' 空席あり '
    [innerText |-> <<\H30BD, \H30ED>>,
     images |-> << [noAttributes EXCEPT
                      !.alt = <<\H0020, \H7A7A, \H5E2D, \H3042, \H308A, \H0020>>] >>,
     elements |-> << >>],
    \* B寝台個室 ソロ without any signal
    [innerText |-> <<\H0042, \H5BDD, \H53F0, \H500B, \H5BA4, \H0020, \H30BD, \H30ED>>,
     images |-> << >>,
     elements |-> << >>],
    \* ' B寝台個室 シングル ○ ' as text only
    [innerText |-> <<\H0020, \H0042, \H5BDD, \H53F0, \H500B, \H5BA4, \H0020,
                     \H30B7, \H30F3, \H30B0, \H30EB, \H0020, \H25CB, \H0020>>,
     images |-> << >>,
     elements |-> << >>],
    \* ソロ with an icon whose alt is blank and aria-label 残席なし, and a
    \* span titled ' 受付終了 '
    [innerText |-> <<\H30BD, \H30ED>>,
     images |-> << [noAttributes EXCEPT
                      !.alt = <<\H0020>>,
                      !.ariaLabel = <<\H6B8B, \H5E2D, \H306A, \H3057>>] >>,
     elements |-> << [noAttributes EXCEPT
                        !.title = <<\H0020, \H53D7, \H4ED8, \H7D42, \H4E86, \H0020>>] >>],
    \* ソロ with an icon without label and a span whose alt is blank and
    \* aria-label 満席
    [innerText |-> <<\H30BD, \H30ED>>,
     images |-> << noAttributes >>,
     elements |-> << [noAttributes EXCEPT
                        !.alt = <<\H0020>>,
                        !.ariaLabel = <<\H6E80, \H5E2D>>] >>] }

FollowingAlts ==
  { << >>,                                                     \* no such image
    << <<\H0020, \H25CB, \H0020>> >>,                          \* ' ○ '
    << <<\H0020>> >> }                                         \* ' '

\* the radio buttons of a page with n rows: none, or the one of ソロ
RadiosOf(n) ==
  { << >> } \cup
  { << [value |-> <<\H30BD, \H30ED>>, row |-> row, followingAlt |-> alt] >> :
      row \in { << >> } \cup { << k >> : k \in 1 .. n }, alt \in FollowingAlts }

SearchRoots ==
  UNION { { [rows |-> rows, radios |-> radios] : radios \in RadiosOf(Len(rows)) } :
            rows \in SeqsUpTo(Rows, MaxRows) }

SectionHtmls ==
  { << >>,                                                     \* not readable
    <<\H30BD, \H30ED, \H6E80, \H5E2D>>,                        \* ソロ満席
    <<\H30BD, \H30ED, \H0078>> }                               \* ソロx

PageHtmls ==
  { <<\H30BD, \H30ED, \H25CB>>,                                \* ソロ○
    <<\H30B7, \H30F3, \H30B0, \H30EB, \H0078>> }               \* シングルx

LookupRooms == { ROOM_TYPES[4], ROOM_TYPES[5] }                \* single, solo

(***************************************************************************)
(* Invocations of the engine.                                              *)
(***************************************************************************)
\* no call of checkAvailability
noCall ==
  /\ settings = [roomTypes |-> << >>, departureStation |-> << >>,
                 arrivalStation |-> << >>]
  /\ maxRetries = 0
  /\ pc = "off"
  /\ trains = << >>
  /\ attempt = 0
  /\ browser = "null"
  /\ openBrowsers = 0
  /\ pages = << >>
  /\ trainIndex = 0
  /\ trainResults = << >>
  /\ delays = 0
  /\ failedCloses = 0
  /\ result = << >>

\* no invocation of an engine function
engineIdle ==
  /\ fn = "idle"
  /\ arg = << >>
  /\ ret = << >>

\* no monitoring loop
noCheckYet == [hasAvailability |-> FALSE, availableRooms |-> << >>]

noMonitor ==
  /\ monitor = "off"
  /\ notificationType = "sound"
  /\ now = 0
  /\ shutdownTime = 0
  /\ shutdownTimer = "unset"
  /\ interval = "unset"
  /\ maintenanceTimer = "null"
  /\ pendingMaintenance = 0
  /\ maintenanceEnd = 0
  /\ performChecks = 0
  /\ checking = 0
  /\ checksStarted = 0
  /\ checksCompleted = 0
  /\ lastCheckAt = 0
  /\ lastCheck = noCheckYet
  /\ notifying = 0
  /\ notifyCalls = 0
  /\ lastNotify = << >>
  /\ foundCount = 0
  /\ checksFound = 0
  /\ sigints = 0
  /\ exiting = 0
  /\ shutdownNotices = << >>
  /\ exitCode = "running"

Init ==
  /\ engineIdle
  /\ noCall
  /\ noMonitor

CallNormalizeForSearch ==
  /\ fn = "idle"
  /\ \E value \in Texts :
       /\ arg' = value
       /\ ret' = normalizeForSearch(value)
  /\ fn' = "normalizeForSearch"
  /\ UNCHANGED <<checkVars, monitorVars>>

CallCreateKeywordEntries ==
  /\ fn = "idle"
  /\ \E keywords \in KeywordLists :
       /\ arg' = keywords
       /\ ret' = createKeywordEntries(keywords)
  /\ fn' = "createKeywordEntries"
  /\ UNCHANGED <<checkVars, monitorVars>>

CallDetermineTrainsToSearch ==
  /\ fn = "idle"
  /\ \E departure \in Stations, arrival \in Stations :
       /\ arg' = << departure, arrival >>
       /\ ret' = determineTrainsToSearch(departure, arrival)
  /\ fn' = "determineTrainsToSearch"
  /\ UNCHANGED <<checkVars, monitorVars>>

CallNavigateToTrainPage ==
  /\ fn = "idle"
  /\ \E train \in { "seto", "izumo" }, responses \in Navigations :
       /\ arg' = [train |-> train, responses |-> responses]
       /\ ret' = navigateToTrainPage(train, responses)
  /\ fn' = "navigateToTrainPage"
  /\ UNCHANGED <<checkVars, monitorVars>>

CallSelectMultipleFromList ==
  /\ fn = "idle"
  /\ \E answers \in Answers :
       /\ arg' = answers
       /\ ret' = selectMultipleFromList(ROOM_TYPES, answers)
  /\ fn' = "selectMultipleFromList"
  /\ UNCHANGED <<checkVars, monitorVars>>

CallAnalyzeTextForAvailability ==
  /\ fn = "idle"
  /\ \E text \in Texts :
       /\ arg' = text
       /\ ret' = analyzeTextForAvailability(text)
  /\ fn' = "analyzeTextForAvailability"
  /\ UNCHANGED <<checkVars, monitorVars>>

CallResolveAvailabilityFromSnapshot ==
  /\ fn = "idle"
  /\ \E snapshot \in Snapshots :
       /\ arg' = snapshot
       /\ ret' = resolveAvailabilityFromSnapshot(snapshot)
  /\ fn' = "resolveAvailabilityFromSnapshot"
  /\ UNCHANGED <<checkVars, monitorVars>>

CallSelectBestAvailabilityResolution ==
  /\ fn = "idle"
  /\ \E resolutions \in SeqsUpTo(RowResolutions, MaxResolutions) :
       /\ arg' = resolutions
       /\ ret' = selectBestAvailabilityResolution(resolutions)
  /\ fn' = "selectBestAvailabilityResolution"
  /\ UNCHANGED <<checkVars, monitorVars>>

CallResolveRoomAvailabilityFromHtml ==
  /\ fn = "idle"
  /\ \E normalizedBody \in Haystacks(WINDOW_RADIUS), r \in 1 .. Len(ROOM_TYPES) :
       /\ arg' = [normalizedBody |-> normalizedBody, room |-> ROOM_TYPES[r]]
       /\ ret' = resolveRoomAvailabilityFromHtml(normalizedBody, ROOM_TYPES[r])
  /\ fn' = "resolveRoomAvailabilityFromHtml"
  /\ UNCHANGED <<checkVars, monitorVars>>

CallResolveRoomAvailability ==
  /\ fn = "idle"
  /\ \E normalizedBody \in Haystacks(SINGLE_TRAIN_WINDOW_RADIUS),
        r \in 1 .. Len(ROOM_TYPES) :
       /\ arg' = [normalizedBody |-> normalizedBody, room |-> ROOM_TYPES[r]]
       /\ ret' = resolveRoomAvailability(normalizedBody, ROOM_TYPES[r])
  /\ fn' = "resolveRoomAvailability"
  /\ UNCHANGED <<checkVars, monitorVars>>

CallResolveRoomAvailabilityFromPage ==
  /\ fn = "idle"
  /\ \E searchRoot \in SearchRoots, room \in LookupRooms :
       /\ arg' = [searchRoot |-> searchRoot, room |-> room]
       /\ ret' = resolveRoomAvailabilityFromPage(searchRoot, room)
  /\ fn' = "resolveRoomAvailabilityFromPage"
  /\ UNCHANGED <<checkVars, monitorVars>>

(***************************************************************************)
(* The lookup of one room, lines 403-421, stage by stage: fn names the     *)
(* stage that ran last and ret holds what it left.                         *)
(***************************************************************************)
\* resolveRoomAvailabilityFromPage has returned to line 403
pageReturned ==
  \/ fn = "formControlRow" /\ formControlStage(arg.searchRoot, arg.roomInfo) # << >>
  \/ fn = "aliasRows"

\* lines 250-272
TryFormControlRow ==
  /\ fn = "idle"
  /\ \E searchRoot \in SearchRoots, normalizedSectionHtml \in SectionHtmls,
        normalizedBody \in PageHtmls, roomInfo \in LookupRooms :
       /\ arg' = [searchRoot |-> searchRoot,
                  normalizedSectionHtml |-> normalizedSectionHtml,
                  normalizedBody |-> normalizedBody,
                  roomInfo |-> roomInfo]
       /\ ret' = IF formControlStage(searchRoot, roomInfo) # << >>
                   THEN formControlStage(searchRoot, roomInfo)[1]
                   ELSE [status |-> "unknown"]
  /\ fn' = "formControlRow"
  /\ UNCHANGED <<checkVars, monitorVars>>

\* lines 274-284
TryAliasRows ==
  /\ fn = "formControlRow"
  /\ formControlStage(arg.searchRoot, arg.roomInfo) = << >>
  /\ ret' = aliasStage(arg.searchRoot, getRoomKeywordCandidates(arg.roomInfo), 1)
  /\ fn' = "aliasRows"
  /\ UNCHANGED arg
  /\ UNCHANGED <<checkVars, monitorVars>>

\* lines 407-414; the variant runs the windowed search whatever the page
\* lookup returned
TryWindowedSearch_always ==
  /\ pageReturned
  /\ ret' = mergeFallback(ret,
              resolveRoomAvailabilityFromHtml(
                fallbackSource(arg.normalizedSectionHtml, arg.normalizedBody),
                arg.roomInfo))
  /\ fn' = "windowedSearch"
  /\ UNCHANGED arg
  /\ UNCHANGED <<checkVars, monitorVars>>

TryWindowedSearch ==
  /\ pageReturned
  /\ ret.status = "unknown"
  /\ ret' = mergeFallback(ret,
              resolveRoomAvailabilityFromHtml(
                fallbackSource(arg.normalizedSectionHtml, arg.normalizedBody),
                arg.roomInfo))
  /\ fn' = "windowedSearch"
  /\ UNCHANGED arg
  /\ UNCHANGED <<checkVars, monitorVars>>

\* lines 416-421
PushRoomStatus ==
  /\ \/ pageReturned /\ ret.status # "unknown"
     \/ fn = "windowedSearch"
  /\ ret' = LET indicatorText ==
                  IF fn = "windowedSearch"
                    THEN IF "indicatorText" \in DOMAIN ret
                           THEN << ret.indicatorText >> ELSE << >>
                    ELSE IF "indicator" \in DOMAIN ret
                           THEN << ret.indicator >> ELSE << >>
            IN IF indicatorText = << >>
                 THEN [roomType |-> arg.roomInfo.value, status |-> ret.status]
                 ELSE [roomType |-> arg.roomInfo.value, status |-> ret.status,
                       indicatorText |-> indicatorText[1]]
  /\ fn' = "roomStatus"
  /\ UNCHANGED arg
  /\ UNCHANGED <<checkVars, monitorVars>>

Return ==
  /\ fn # "idle"
  /\ fn' = "idle"
  /\ arg' = << >>
  /\ ret' = << >>
  /\ UNCHANGED <<checkVars, monitorVars>>

Next ==
  \/ CallNormalizeForSearch
  \/ CallCreateKeywordEntries
  \/ CallDetermineTrainsToSearch
  \/ CallNavigateToTrainPage
  \/ CallSelectMultipleFromList
  \/ CallAnalyzeTextForAvailability
  \/ CallResolveAvailabilityFromSnapshot
  \/ CallSelectBestAvailabilityResolution
  \/ CallResolveRoomAvailabilityFromHtml
  \/ CallResolveRoomAvailability
  \/ CallResolveRoomAvailabilityFromPage
  \/ TryFormControlRow
  \/ TryAliasRows
  \/ TryWindowedSearch
  \/ PushRoomStatus
  \/ Return

Spec == Init /\ [][Next]_vars

(***************************************************************************)
(* One call of checkAvailability, availability.ts lines 359-510, step by   *)
(* step.                                                                   *)
(***************************************************************************)
MaxRetriesLimit == 3  \* largest maxRetries explored

MaxRoomTypes == 2     \* requested room types of one settings object

\* solo, single, and a room type that ROOM_TYPES does not define
RequestedRoomTypes == { "solo", "single", "suite" }

StationPairs ==
  { << <<\H6771, \H4EAC>>, <<\H5CA1, \H5C71>> >>,              \* 東京 → 岡山
    << <<\H6771, \H4EAC>>, <<\H9AD8, \H677E>> >>,              \* 東京 → 高松
    << <<\H6771, \H4EAC>>, <<\H51FA, \H96F2, \H5E02>> >> }     \* 東京 → 出雲市

SettingsInputs ==
  { [roomTypes |-> roomTypes, departureStation |-> pair[1],
     arrivalStation |-> pair[2]] :
      roomTypes \in SeqsUpTo(RequestedRoomTypes, MaxRoomTypes),
      pair \in StationPairs }

\* what a train page can show once loaded
TrainPages ==
  { \* a row ソロ with an icon ' 空席あり '
    [content |-> <<\H30BD, \H30ED>>,
     sectionHtml |-> <<\H30BD, \H30ED>>,
     searchRoot |->
       [rows |-> << [innerText |-> <<\H30BD, \H30ED>>,
                     images |-> << [noAttributes EXCEPT
                        !.alt = <<\H0020, \H7A7A, \H5E2D, \H3042, \H308A, \H0020>>] >>,
                     elements |-> << >>] >>,
        radios |-> << >>]],
    \* a row B寝台個室 ソロ with an icon 満席; the section HTML reads
    \* 'B寝台個室 シングル ○'
    [content |-> <<\H0042, \H5BDD, \H53F0, \H500B, \H5BA4, \H0020,
                   \H30B7, \H30F3, \H30B0, \H30EB, \H0020, \H25CB>>,
     sectionHtml |-> <<\H0042, \H5BDD, \H53F0, \H500B, \H5BA4, \H0020,
                       \H30B7, \H30F3, \H30B0, \H30EB, \H0020, \H25CB>>,
     searchRoot |->
       [rows |-> << [innerText |-> <<\H0042, \H5BDD, \H53F0, \H500B, \H5BA4,
                                     \H0020, \H30BD, \H30ED>>,
                     images |-> << [noAttributes EXCEPT !.alt = <<\H6E80, \H5E2D>>] >>,
                     elements |-> << >>] >>,
        radios |-> << >>]],
    \* no rows, the section unreadable, the page reads 'ソロ 満席'
    [content |-> <<\H30BD, \H30ED, \H0020, \H6E80, \H5E2D>>,
     sectionHtml |-> << >>,
     searchRoot |-> [rows |-> << >>, radios |-> << >>]],
    \* page.content() is empty
    [content |-> << >>,
     sectionHtml |-> << >>,
     searchRoot |-> [rows |-> << >>, radios |-> << >>]] }

\* the room statuses of lines 394-422 for each page and each request
roomStatusesOf ==
  [page \in TrainPages |->
     [roomTypes \in SeqsUpTo(RequestedRoomTypes, MaxRoomTypes) |->
        roomStatusesFrom(page, roomTypes, 1)]]

CheckInit ==
  /\ engineIdle
  /\ noMonitor
  /\ settings \in SettingsInputs
  /\ maxRetries \in 0 .. MaxRetriesLimit
  /\ pc = "entry"
  /\ trains = << >>
  /\ attempt = 0
  /\ browser = "null"
  /\ openBrowsers = 0
  /\ pages = << >>
  /\ trainIndex = 0
  /\ trainResults = << >>
  /\ delays = 0
  /\ failedCloses = 0
  /\ result = << >>

\* line 364 with attempt set to k, and lines 508-509 when the loop ends
loopWith(k) ==
  /\ attempt' = k
  /\ IF k <= maxRetries
       THEN pc' = "launch" /\ result' = result
       ELSE /\ pc' = "returned"
            /\ result' = << [hasAvailability |-> FALSE, availableRooms |-> << >>] >>

\* lines 360-364
Enter ==
  /\ pc = "entry"
  /\ trains' = determineTrainsToSearch(settings.departureStation,
                                       settings.arrivalStation)
  /\ loopWith(1)
  /\ UNCHANGED <<engineVars, monitorVars, failedCloses, settings, maxRetries, browser, openBrowsers, pages,
                 trainIndex, trainResults, delays>>

\* line 368
Launch ==
  /\ pc = "launch"
  /\ browser' = "set"
  /\ openBrowsers' = openBrowsers + 1
  /\ pc' = "context"
  /\ UNCHANGED <<engineVars, monitorVars, failedCloses, settings, maxRetries, trains, attempt, pages,
                 trainIndex, trainResults, delays, result>>

\* lines 369-374; the variant keeps the train results of the attempt before
OpenPages_resultsKept ==
  /\ pc = "context"
  /\ pages' = [i \in 1 .. Len(trains) |-> << >>]
  /\ trainResults' = trainResults
  /\ trainIndex' = 1
  /\ pc' = IF 1 <= Len(trains) THEN "train" ELSE "close"
  /\ UNCHANGED <<engineVars, monitorVars, failedCloses, settings, maxRetries, trains, attempt, browser,
                 openBrowsers, delays, result>>

OpenPages ==
  /\ pc = "context"
  /\ pages' = [i \in 1 .. Len(trains) |-> << >>]
  /\ trainResults' = << >>
  /\ trainIndex' = 1
  /\ pc' = IF 1 <= Len(trains) THEN "train" ELSE "close"
  /\ UNCHANGED <<engineVars, monitorVars, failedCloses, settings, maxRetries, trains, attempt, browser,
                 openBrowsers, delays, result>>

\* lines 375-441 for a page with content, and the loop test of line 374
CheckTrain ==
  /\ pc = "train"
  /\ \E page \in TrainPages :
       /\ page.content # << >>
       /\ pages' = [pages EXCEPT ![trainIndex] = << page >>]
       /\ trainResults' =
            Append(trainResults,
                   [train |-> trains[trainIndex],
                    roomStatuses |-> roomStatusesOf[page][settings.roomTypes]])
  /\ trainIndex' = trainIndex + 1
  /\ pc' = IF trainIndex + 1 <= Len(trains) THEN "train" ELSE "close"
  /\ UNCHANGED <<engineVars, monitorVars, failedCloses, settings, maxRetries, trains, attempt, browser,
                 openBrowsers, delays, result>>

\* lines 375-388 for a page without content
ThrowOnEmptyPage ==
  /\ pc = "train"
  /\ \E page \in TrainPages :
       /\ page.content = << >>
       /\ pages' = [pages EXCEPT ![trainIndex] = << page >>]
  /\ pc' = handlerOf("train")
  /\ UNCHANGED <<engineVars, monitorVars, failedCloses, settings, maxRetries, trains, attempt, browser,
                 openBrowsers, trainIndex, trainResults, delays, result>>

\* an awaited call of the step rejects
Throw ==
  /\ pc \in ThrowSites
  /\ pc' = handlerOf(pc)
  /\ failedCloses' = IF pc = "finish" THEN failedCloses + 1 ELSE failedCloses
  /\ UNCHANGED <<engineVars, monitorVars, settings, maxRetries, trains, attempt, browser,
                 openBrowsers, pages, trainIndex, trainResults, delays, result>>

\* lines 451-452
ClosePages ==
  /\ pc = "close"
  /\ pc' = "finish"
  /\ UNCHANGED <<engineVars, monitorVars, failedCloses, settings, maxRetries, trains, attempt, browser,
                 openBrowsers, pages, trainIndex, trainResults, delays, result>>

\* lines 443-449 and 454-485, returning with the browser left open
Finish_browserKept ==
  /\ pc = "finish"
  /\ result' = << checkResult(trainResults) >>
  /\ pc' = "returned"
  /\ UNCHANGED <<engineVars, monitorVars, failedCloses, settings, maxRetries, trains, attempt, pages,
                 trainIndex, trainResults, delays, browser, openBrowsers>>

\* lines 443-449 and 454-485
Finish ==
  /\ pc = "finish"
  /\ browser' = "null"
  /\ openBrowsers' = openBrowsers - 1
  /\ result' = << checkResult(trainResults) >>
  /\ pc' = "returned"
  /\ UNCHANGED <<engineVars, monitorVars, failedCloses, settings, maxRetries, trains, attempt, pages,
                 trainIndex, trainResults, delays>>

\* lines 487-500, and lines 364 and 508-509 after the last attempt; the
\* variant waits after every failed attempt
Catch_alwaysWaits ==
  /\ pc = "catch"
  /\ \E closed \in BOOLEAN :
       IF browser = "set" /\ closed
         THEN /\ browser' = "null"
              /\ openBrowsers' = openBrowsers - 1
              /\ UNCHANGED failedCloses
         ELSE /\ failedCloses' = IF browser = "set" THEN failedCloses + 1
                                  ELSE failedCloses
              /\ UNCHANGED <<browser, openBrowsers>>
  /\ pc' = "delay" /\ UNCHANGED <<attempt, result>>
  /\ UNCHANGED <<engineVars, monitorVars, settings, maxRetries, trains, pages, trainIndex,
                 trainResults, delays>>

Catch ==
  /\ pc = "catch"
  /\ \E closed \in BOOLEAN :
       IF browser = "set" /\ closed
         THEN /\ browser' = "null"
              /\ openBrowsers' = openBrowsers - 1
              /\ UNCHANGED failedCloses
         ELSE /\ failedCloses' = IF browser = "set" THEN failedCloses + 1
                                  ELSE failedCloses
              /\ UNCHANGED <<browser, openBrowsers>>
  /\ IF attempt < maxRetries
       THEN pc' = "delay" /\ UNCHANGED <<attempt, result>>
       ELSE loopWith(attempt + 1)
  /\ UNCHANGED <<engineVars, monitorVars, settings, maxRetries, trains, pages, trainIndex,
                 trainResults, delays>>

\* lines 501-502, then line 364
Delay ==
  /\ pc = "delay"
  /\ delays' = delays + 1
  /\ loopWith(attempt + 1)
  /\ UNCHANGED <<engineVars, monitorVars, failedCloses, settings, maxRetries, trains, browser, openBrowsers,
                 pages, trainIndex, trainResults>>

CheckNext ==
  \/ Enter
  \/ Launch
  \/ OpenPages
  \/ CheckTrain
  \/ ThrowOnEmptyPage
  \/ Throw
  \/ ClosePages
  \/ Finish
  \/ Catch
  \/ Delay

CheckSpec == CheckInit /\ [][CheckNext]_vars

(***************************************************************************)
(* The monitoring loop, index.ts lines 101-151 and 178-246.  A call of     *)
(* checkAvailability is seen from outside: it starts, and later it         *)
(* completes with a result.  The local clock takes the instants of         *)
(* ClockTimes on two consecutive days; one synchronous block of code reads *)
(* one clock value, and a timeout fires before the clock moves past the    *)
(* first instant at which it is due.  An interval tick can come at any     *)
(* instant, before or after a running check completes.                     *)
(***************************************************************************)
MaxChecks == 3   \* calls of performCheck in one run of the monitor

MaxSignals == 2  \* SIGINT signals delivered to one run of the monitor

SecondsPerDay == 86400

\* the seconds of the day the clock takes
ClockTimes ==
  { 300,     \* 00:05:00
    359,     \* 00:05:59
    360,     \* 00:06:00
    6599,    \* 01:49:59
    6600,    \* 01:50:00
    6601,    \* 01:50:01
    43200,   \* 12:00:00
    85799,   \* 23:49:59
    85800 }  \* 23:50:00

ClockInstants == { day * SecondsPerDay + time : day \in 0 .. 1, time \in ClockTimes }

\* Date.prototype.getHours and getMinutes of an instant
getHours(instant) == (instant % SecondsPerDay) \div 3600

getMinutes(instant) == ((instant % SecondsPerDay) % 3600) \div 60

\* new Date(instant).setHours(hours, minutes, 0, 0)
setHours(instant, hours, minutes) ==
  (instant \div SecondsPerDay) * SecondsPerDay + hours * 3600 + minutes * 60

\* lines 101-114
getNextShutdownTime(instant) ==
  LET shutdown == setHours(instant, 1, 50)
  IN IF instant >= shutdown THEN shutdown + SecondsPerDay ELSE shutdown

\* isMaintenanceTime with the last minute of the window left out
isMaintenanceTime_endExclusive(instant) ==
  \/ getHours(instant) = 23 /\ getMinutes(instant) >= 50
  \/ getHours(instant) = 0 /\ getMinutes(instant) < 5

\* lines 116-130
isMaintenanceTime(instant) ==
  \/ getHours(instant) = 23 /\ getMinutes(instant) >= 50
  \/ getHours(instant) = 0 /\ getMinutes(instant) <= 5

\* lines 132-151, as << >> (null) or <<the instant>>
getNextMaintenanceEnd(instant) ==
  IF getHours(instant) = 23 /\ getMinutes(instant) >= 50
    THEN << setHours(instant, 0, 5) + SecondsPerDay >>
    ELSE IF getHours(instant) = 0 /\ getMinutes(instant) <= 5
           THEN << setHours(instant, 0, 5) >>
           ELSE << >>

\* the results a call of checkAvailability returns
CheckResults ==
  { [hasAvailability |-> FALSE, availableRooms |-> << >>],
    [hasAvailability |-> TRUE, availableRooms |-> << "solo" >>],
    [hasAvailability |-> TRUE, availableRooms |-> << "single", "suite" >>] }

\* whether a webhook delivery can fail: sendDiscordWebhook and the fetch of
\* notifyShutdown do, the desktop notification does not
Deliveries == IF notificationType = "discord" THEN BOOLEAN ELSE { TRUE }

MonitorInit ==
  /\ engineIdle
  /\ noCall
  /\ monitor = "start"
  /\ notificationType \in { "sound", "discord" }
  /\ now \in ClockTimes
  /\ shutdownTime = 0
  /\ shutdownTimer = "unset"
  /\ interval = "unset"
  /\ maintenanceTimer = "null"
  /\ pendingMaintenance = 0
  /\ maintenanceEnd = 0
  /\ performChecks = 0
  /\ checking = 0
  /\ checksStarted = 0
  /\ checksCompleted = 0
  /\ lastCheckAt = 0
  /\ lastCheck = noCheckYet
  /\ notifying = 0
  /\ notifyCalls = 0
  /\ lastNotify = << >>
  /\ foundCount = 0
  /\ checksFound = 0
  /\ sigints = 0
  /\ exiting = 0
  /\ shutdownNotices = << >>
  /\ exitCode = "running"

\* a timeout whose delay has elapsed
shutdownDue == shutdownTimer = "pending" /\ now >= shutdownTime

maintenanceDue == pendingMaintenance > 0 /\ now >= maintenanceEnd

ClockMoves ==
  /\ exitCode = "running"
  /\ monitor # "start"
  /\ ~ shutdownDue
  /\ ~ maintenanceDue
  /\ \E later \in ClockInstants :
       /\ later > now
       /\ \A other \in ClockInstants : other > now => later <= other
       /\ now' = later
  /\ UNCHANGED <<engineVars, checkVars, monitor, notificationType, timerVars,
                 progressVars, notifyVars, exitVars>>

\* performCheck, lines 197-215, up to the await of line 215
performCheck ==
  /\ performChecks' = performChecks + 1
  /\ IF isMaintenanceTime(now) /\ getNextMaintenanceEnd(now) # << >>
       THEN /\ maintenanceTimer' = "set"
            /\ pendingMaintenance' = pendingMaintenance + 1
            /\ maintenanceEnd' = getNextMaintenanceEnd(now)[1]
            /\ UNCHANGED <<checking, checksStarted, lastCheckAt>>
       ELSE /\ checking' = checking + 1
            /\ checksStarted' = checksStarted + 1
            /\ lastCheckAt' = now
            /\ UNCHANGED <<maintenanceTimer, pendingMaintenance, maintenanceEnd>>

\* lines 236-246: the interval and the SIGINT handler are installed
ArmInterval ==
  /\ interval' = "set"
  /\ monitor' = "armed"

\* the initial performCheck has settled: startMonitoring goes on after line 226
settled(done) ==
  IF monitor = "initialCheck" /\ done
    THEN ArmInterval
    ELSE UNCHANGED <<interval, monitor>>

\* lines 178-233, up to the await of line 226
InitialCheck ==
  /\ monitor = "start"
  /\ shutdownTime' = getNextShutdownTime(now)
  /\ shutdownTimer' = "pending"
  /\ IF ~ isMaintenanceTime(now)
       THEN /\ performCheck
            /\ monitor' = "initialCheck"
            /\ UNCHANGED interval
       ELSE /\ ArmInterval
            /\ UNCHANGED <<performChecks, checking, checksStarted, lastCheckAt,
                           maintenanceTimer, pendingMaintenance, maintenanceEnd>>
  /\ UNCHANGED <<engineVars, checkVars, notificationType, now, checksCompleted,
                 lastCheck, notifyVars, exitVars>>

\* the interval of line 236 elapses and calls performCheck
Tick ==
  /\ exitCode = "running"
  /\ interval = "set"
  /\ performChecks < MaxChecks
  /\ performCheck
  /\ UNCHANGED <<engineVars, checkVars, monitor, notificationType, now,
                 shutdownTime, shutdownTimer, interval, checksCompleted,
                 lastCheck, notifyVars, exitVars>>

\* lines 215-218: checkAvailability returns to one of the invocations
CheckCompletes ==
  /\ exitCode = "running"
  /\ checking > 0
  /\ checking' = checking - 1
  /\ checksCompleted' = checksCompleted + 1
  /\ \E outcome \in CheckResults :
       /\ lastCheck' = outcome
       /\ IF outcome.hasAvailability
            THEN /\ foundCount' = foundCount + 1
                 /\ checksFound' = checksFound + 1
                 /\ notifying' = notifying + 1
                 /\ notifyCalls' = notifyCalls + 1
                 /\ lastNotify' = outcome.availableRooms
            ELSE UNCHANGED notifyVars
       /\ settled(~ outcome.hasAvailability)
  /\ UNCHANGED <<engineVars, checkVars, notificationType, now, shutdownTime,
                 shutdownTimer, maintenanceTimer, pendingMaintenance,
                 maintenanceEnd, performChecks, checksStarted, lastCheckAt,
                 exitVars>>

\* lines 218-221: notifyAvailability returns or, when sendDiscordWebhook
\* throws (notifier.ts lines 53-58), rejects.  The rejection leaves
\* performCheck: startMonitoring rejects with it when the initial check is
\* awaited (line 226, logged by main().catch), and it is an unhandled
\* rejection, which ends the process with code 1, in an interval tick.
NotifyCompletes ==
  /\ exitCode = "running"
  /\ notifying > 0
  /\ notifying' = notifying - 1
  /\ \E delivered \in Deliveries :
       IF delivered
         THEN settled(TRUE) /\ UNCHANGED exitCode
         ELSE IF monitor = "initialCheck"
                THEN monitor' = "failed" /\ UNCHANGED <<interval, exitCode>>
                ELSE exitCode' = "1" /\ UNCHANGED <<interval, monitor>>
  /\ UNCHANGED <<engineVars, checkVars, notificationType, now, shutdownTime,
                 shutdownTimer, maintenanceTimer, pendingMaintenance,
                 maintenanceEnd, progressVars, notifyCalls, lastNotify,
                 foundCount, checksFound, sigints, exiting, shutdownNotices>>

\* lines 206-209
MaintenanceTimerFires ==
  /\ exitCode = "running"
  /\ maintenanceDue
  /\ pendingMaintenance' = pendingMaintenance - 1
  /\ maintenanceTimer' = "null"
  /\ UNCHANGED <<engineVars, checkVars, monitor, notificationType, now,
                 shutdownTime, shutdownTimer, interval, maintenanceEnd,
                 progressVars, notifyVars, exitVars>>

\* if (maintenanceTimer) clearTimeout(maintenanceTimer), lines 191 and 243:
\* the handle names the latest timeout only
clearMaintenanceTimer ==
  IF maintenanceTimer = "set"
    THEN /\ maintenanceTimer' = "cleared"
         /\ pendingMaintenance' = pendingMaintenance - 1
    ELSE UNCHANGED <<maintenanceTimer, pendingMaintenance>>

\* notifyShutdown(notificationConfig, foundCount) is called, lines 192, 244
callNotifyShutdown ==
  /\ shutdownNotices' = Append(shutdownNotices, foundCount)
  /\ exiting' = exiting + 1

\* lines 188-194.  Before line 236 has run, intervalId is in its temporal
\* dead zone: clearInterval(intervalId) throws a ReferenceError inside the
\* async callback, an unhandled rejection that ends the process with code 1.
ShutdownTimerFires ==
  /\ exitCode = "running"
  /\ shutdownDue
  /\ shutdownTimer' = "fired"
  /\ IF interval = "unset"
       THEN /\ exitCode' = "1"
            /\ UNCHANGED <<interval, maintenanceTimer, pendingMaintenance,
                           shutdownNotices, exiting>>
       ELSE /\ interval' = "cleared"
            /\ clearMaintenanceTimer
            /\ callNotifyShutdown
            /\ UNCHANGED exitCode
  /\ UNCHANGED <<engineVars, checkVars, monitor, notificationType, now,
                 shutdownTime, maintenanceEnd, progressVars, notifyVars,
                 sigints>>

\* lines 239-246; before the handler is installed the signal ends the process
Sigint ==
  /\ exitCode = "running"
  /\ monitor # "start"
  /\ sigints < MaxSignals
  /\ sigints' = sigints + 1
  /\ IF monitor # "armed"
       THEN /\ exitCode' = "SIGINT"
            /\ UNCHANGED <<interval, shutdownTimer, maintenanceTimer,
                           pendingMaintenance, shutdownNotices, exiting>>
       ELSE /\ interval' = "cleared"
            /\ shutdownTimer' = IF shutdownTimer = "pending" THEN "cleared"
                                ELSE shutdownTimer
            /\ clearMaintenanceTimer
            /\ callNotifyShutdown
            /\ UNCHANGED exitCode
  /\ UNCHANGED <<engineVars, checkVars, monitor, notificationType, now,
                 shutdownTime, maintenanceEnd, progressVars, notifyVars>>

\* notifyShutdown with a delivery failure that escapes it
exitAfterNotifyShutdown_failureEscapes(delivered) == IF delivered THEN "0" ELSE "1"

\* notifier.ts lines 113-139 catch and log a failed delivery, then
\* process.exit(0), lines 193 and 245
exitAfterNotifyShutdown(delivered) == "0"

\* notifyShutdown returns to one of the handlers
ShutdownNotified ==
  /\ exitCode = "running"
  /\ exiting > 0
  /\ exiting' = exiting - 1
  /\ \E delivered \in Deliveries : exitCode' = exitAfterNotifyShutdown(delivered)
  /\ UNCHANGED <<engineVars, checkVars, monitor, notificationType, now,
                 timerVars, progressVars, notifyVars, sigints, shutdownNotices>>

MonitorNext ==
  \/ ClockMoves
  \/ InitialCheck
  \/ Tick
  \/ CheckCompletes
  \/ NotifyCompletes
  \/ MaintenanceTimerFires
  \/ ShutdownTimerFires
  \/ Sigint
  \/ ShutdownNotified

MonitorSpec == MonitorInit /\ [][MonitorNext]_vars

(***************************************************************************)
(* Vocabulary of the properties.                                           *)
(***************************************************************************)
\* the smallest element of a non-empty set of integers
Least(S) == CHOOSE x \in S : \A y \in S : x <= y

\* indices of the keywords of a table whose normalized form occurs in text
Hits(normalizedText, keywords) ==
  { i \in 1 .. Len(keywords) :
      includes(normalizedText, normalizeForSearch(keywords[i])) }

\* the first position at which part occurs in text (text includes part)
FirstOccurrence(text, part) ==
  Least({ i \in 0 .. (Len(text) - Len(part)) :
            SubSeq(text, i + 1, i + Len(part)) = part })

\* a label containing one of the three "no seats" icon phrases
IsNoSeatsLabel(label) ==
  \E phrase \in { <<\H6B8B, \H5E2D, \H306A, \H3057>>,   \* 残席なし
                  <<\H7A7A, \H5E2D, \H306A, \H3057>>,   \* 空席なし
                  <<\H6E80, \H5E2D>> } :                \* 満席
    includes(normalizeForSearch(label), phrase)

(***************************************************************************)
(* Text normalizer.                                                        *)
(***************************************************************************)
\* C1: normalizeForSearch is idempotent: normalizing the value it returned
\* returns that value again.
C1_NormalizeIdempotent ==
  fn = "normalizeForSearch" => normalizeForSearch(ret) = ret

\* C2: the signal characters ○ × ▲ － survive normalization: the output
\* holds a character for every one of them in the input, and a text made
\* only of them does not normalize to the empty string.
C2_SignalCharactersSurvive ==
  LET signals == { \H25CB, \H00D7, \H25B2, \HFF0D }
      image(c) == { normalizeNFKC(<< c >>)[k] :
                      k \in 1 .. Len(normalizeNFKC(<< c >>)) }
  IN fn = "normalizeForSearch" =>
       /\ \A i \in 1 .. Len(arg) :
            arg[i] \in signals =>
              \E k \in 1 .. Len(ret) : ret[k] \in image(arg[i])
       /\ (arg # << >> /\ \A i \in 1 .. Len(arg) : arg[i] \in signals)
            => ret # << >>

(***************************************************************************)
(* Keyword classifier.                                                     *)
(***************************************************************************)
\* C3: a text whose normalized form contains both a NEGATIVE and a POSITIVE
\* keyword is classified unavailable, wherever the two keywords sit.
C3_NegativePrecedence ==
  fn = "analyzeTextForAvailability" =>
    LET normalized == normalizeForSearch(arg)
    IN (Hits(normalized, NEGATIVE_KEYWORDS) # { }
        /\ Hits(normalized, POSITIVE_KEYWORDS) # { })
         => ret.status = "unavailable"

\* a text with a positive keyword that starts before every negative one and
\* lies in none of them, classified unavailable
C3_Witness ==
  /\ fn = "analyzeTextForAvailability"
  /\ LET normalized == normalizeForSearch(arg)
         negative == Hits(normalized, NEGATIVE_KEYWORDS)
         positive == Hits(normalized, POSITIVE_KEYWORDS)
     IN /\ negative # { }
        /\ \E j \in positive : \A i \in negative :
             /\ FirstOccurrence(normalized, normalizeForSearch(POSITIVE_KEYWORDS[j]))
                  < FirstOccurrence(normalized, normalizeForSearch(NEGATIVE_KEYWORDS[i]))
             /\ ~includes(normalizeForSearch(NEGATIVE_KEYWORDS[i]),
                          normalizeForSearch(POSITIVE_KEYWORDS[j]))
  /\ ret.status = "unavailable"

\* C4: the reported keyword is the raw form of the first entry in declared
\* order that occurs in the normalized text, the NEGATIVE table first and
\* the POSITIVE table only when no negative entry occurs; without any
\* occurrence no keyword is reported.
C4_FirstDeclaredKeyword ==
  fn = "analyzeTextForAvailability" =>
    LET normalized == normalizeForSearch(arg)
        negative == Hits(normalized, NEGATIVE_KEYWORDS)
        positive == Hits(normalized, POSITIVE_KEYWORDS)
    IN IF negative # { }
       THEN ret = [status |-> "unavailable",
                   keyword |-> NEGATIVE_KEYWORDS[Least(negative)]]
       ELSE IF positive # { }
            THEN ret = [status |-> "available",
                        keyword |-> POSITIVE_KEYWORDS[Least(positive)]]
            ELSE ret = [status |-> "unknown"]

\* the reported keyword is neither the longest nor the leftmost match
C4_Witness ==
  /\ fn = "analyzeTextForAvailability"
  /\ "keyword" \in DOMAIN ret
  /\ LET normalized == normalizeForSearch(arg)
         reported == normalizeForSearch(ret.keyword)
         negative == Hits(normalized, NEGATIVE_KEYWORDS)
     IN /\ \E i \in negative :
             Len(normalizeForSearch(NEGATIVE_KEYWORDS[i])) > Len(reported)
        /\ \E i \in negative :
             FirstOccurrence(normalized, normalizeForSearch(NEGATIVE_KEYWORDS[i]))
               < FirstOccurrence(normalized, reported)

(***************************************************************************)
(* Snapshot resolver.                                                      *)
(***************************************************************************)
\* C5: when some icon is not a "no seats" label, the snapshot resolves to
\* available with the first such icon as indicator, also when "no seats"
\* icons precede it.
C5_IconPassDominance ==
  fn = "resolveAvailabilityFromSnapshot" =>
    LET icons == arg.iconIndicators
        other == { i \in 1 .. Len(icons) : ~IsNoSeatsLabel(icons[i]) }
    IN other # { } =>
         ret = [status |-> "available", indicator |-> icons[Least(other)]]

\* a "no seats" icon followed by another icon, resolved to the second
C5_Witness ==
  /\ fn = "resolveAvailabilityFromSnapshot"
  /\ Len(arg.iconIndicators) >= 2
  /\ IsNoSeatsLabel(arg.iconIndicators[1])
  /\ ~IsNoSeatsLabel(arg.iconIndicators[2])
  /\ ret = [status |-> "available", indicator |-> arg.iconIndicators[2]]

\* C6: when there are icons and all of them are "no seats" labels, the
\* snapshot resolves to unavailable with the original text of the first icon
\* as indicator.
C6_AllNegativeIcons ==
  fn = "resolveAvailabilityFromSnapshot" =>
    LET icons == arg.iconIndicators
    IN (icons # << >> /\ \A i \in 1 .. Len(icons) : IsNoSeatsLabel(icons[i]))
         => ret = [status |-> "unavailable", indicator |-> icons[1]]

\* two different "no seats" icons, resolved to the first; its original
\* text differs from its normalized form
C6_Witness ==
  /\ fn = "resolveAvailabilityFromSnapshot"
  /\ Len(arg.iconIndicators) = 2
  /\ \A i \in 1 .. 2 : IsNoSeatsLabel(arg.iconIndicators[i])
  /\ arg.iconIndicators[1] # arg.iconIndicators[2]
  /\ normalizeForSearch(arg.iconIndicators[1]) # arg.iconIndicators[1]
  /\ ret = [status |-> "unavailable", indicator |-> arg.iconIndicators[1]]

\* C7: without icons, the first attribute indicator whose classification is
\* not unknown decides: the result has its status, and as indicator the
\* matched keyword, or the attribute text when no keyword is reported.
C7_AttributeFallback ==
  fn = "resolveAvailabilityFromSnapshot" =>
    LET attributes == arg.attributeIndicators
        decisive == { i \in 1 .. Len(attributes) :
                        analyzeTextForAvailability(attributes[i]).status
                          # "unknown" }
    IN (arg.iconIndicators = << >> /\ decisive # { }) =>
         LET first == attributes[Least(decisive)]
             analysis == analyzeTextForAvailability(first)
         IN ret = [status |-> analysis.status,
                   indicator |-> IF "keyword" \in DOMAIN analysis
                                 THEN analysis.keyword ELSE first]

\* an undecisive attribute followed by a decisive one containing more than
\* the keyword, with a row text of the other status
C7_Witness ==
  /\ fn = "resolveAvailabilityFromSnapshot"
  /\ arg.iconIndicators = << >>
  /\ Len(arg.attributeIndicators) = 2
  /\ analyzeTextForAvailability(arg.attributeIndicators[1]).status = "unknown"
  /\ analyzeTextForAvailability(arg.attributeIndicators[2]).status = "unavailable"
  /\ "textContent" \in DOMAIN arg
  /\ analyzeTextForAvailability(arg.textContent).status = "available"
  /\ ret.status = "unavailable"
  /\ ret.indicator # arg.attributeIndicators[2]

\* C8: 空席わずか is an availability signal: without icons, a snapshot whose
\* only attribute indicator is 空席わずか resolves to available with that
\* indicator, and one without attributes whose text is 空席わずか resolves
\* to available.
C8_KuusekiWazukaAvailable ==
  LET wazuka == <<\H7A7A, \H5E2D, \H308F, \H305A, \H304B>>
  IN (fn = "resolveAvailabilityFromSnapshot" /\ arg.iconIndicators = << >>) =>
       /\ arg.attributeIndicators = << wazuka >>
            => ret = [status |-> "available", indicator |-> wazuka]
       /\ (/\ arg.attributeIndicators = << >>
           /\ "textContent" \in DOMAIN arg
           /\ arg.textContent = wazuka)
            => ret.status = "available"

\* C9: every snapshot resolves to a resolution, and one whose icon and
\* attribute sequences are empty and whose text is missing, empty or only
\* whitespace resolves to unknown without indicator.
C9_NoSignalUnknown ==
  fn = "resolveAvailabilityFromSnapshot" =>
    /\ ret.status \in { "available", "unavailable", "unknown" }
    /\ (/\ arg.iconIndicators = << >>
        /\ arg.attributeIndicators = << >>
        /\ "textContent" \in DOMAIN arg =>
             \A i \in 1 .. Len(arg.textContent) :
               arg.textContent[i] \in whitespaceClass)
         => ret = [status |-> "unknown"]

\* a snapshot whose only content is a whitespace text, resolved to unknown
C9_Witness ==
  /\ fn = "resolveAvailabilityFromSnapshot"
  /\ arg.iconIndicators = << >>
  /\ arg.attributeIndicators = << >>
  /\ "textContent" \in DOMAIN arg
  /\ arg.textContent # << >>
  /\ ret = [status |-> "unknown"]

\* C10: one pass decides.  With icons, the result is that of the snapshot
\* with the same icons and nothing else; without icons and with a decisive
\* attribute, it is that of the snapshot with the same attributes and no
\* text.  Hence any two snapshots agreeing on the deciding pass agree.
C10_OnePassDecides ==
  fn = "resolveAvailabilityFromSnapshot" =>
    /\ arg.iconIndicators # << >> =>
         ret = resolveAvailabilityFromSnapshot(
                 [iconIndicators |-> arg.iconIndicators,
                  attributeIndicators |-> << >>])
    /\ (/\ arg.iconIndicators = << >>
        /\ \E i \in 1 .. Len(arg.attributeIndicators) :
             analyzeTextForAvailability(arg.attributeIndicators[i]).status
               # "unknown")
         => ret = resolveAvailabilityFromSnapshot(
                    [iconIndicators |-> << >>,
                     attributeIndicators |-> arg.attributeIndicators])

\* "no seats" icons resolved to unavailable against an attribute and a row
\* text that both classify as available
C10_Witness ==
  /\ fn = "resolveAvailabilityFromSnapshot"
  /\ arg.iconIndicators # << >>
  /\ \E i \in 1 .. Len(arg.attributeIndicators) :
       analyzeTextForAvailability(arg.attributeIndicators[i]).status = "available"
  /\ "textContent" \in DOMAIN arg
  /\ analyzeTextForAvailability(arg.textContent).status = "available"
  /\ ret.status = "unavailable"

(***************************************************************************)
(* Resolution selector.                                                    *)
(***************************************************************************)
\* C11: the selector returns the first resolution whose status is the
\* highest one present under available > unavailable > unknown, and a bare
\* unknown without indicator for an empty or all-unknown sequence.
C11_SelectorPrecedence ==
  fn = "selectBestAvailabilityResolution" =>
    LET rank(status) == CASE status = "available" -> 2
                          [] status = "unavailable" -> 1
                          [] status = "unknown" -> 0
        top == { i \in 1 .. Len(arg) :
                   \A j \in 1 .. Len(arg) : rank(arg[j].status) <= rank(arg[i].status) }
    IN /\ arg # << >> => ret = arg[Least(top)]
       /\ (\A i \in 1 .. Len(arg) : arg[i].status = "unknown")
            => ret = [status |-> "unknown"]

\* an available resolution chosen although an unknown and an unavailable
\* one precede it and another available one follows
C11_Witness ==
  /\ fn = "selectBestAvailabilityResolution"
  /\ \E i, j, k \in 1 .. Len(arg) :
       /\ i < k /\ j < k
       /\ arg[i].status = "unknown"
       /\ arg[j].status = "unavailable"
       /\ arg[k].status = "available"
       /\ ret = arg[k]


(***************************************************************************)
(* Vocabulary of the windowed search claims.                               *)
(***************************************************************************)
\* every position at which part occurs in text, overlapping ones included
Occurrences(text, part) ==
  { i \in 0 .. (Len(text) - Len(part)) :
      \A k \in 1 .. Len(part) : text[i + k] = part[k] }

\* the normalized forms of the room's canonical name and declared aliases,
\* canonical name first
RoomKeywords(room) ==
  LET names == << room.name >> \o ROOM_TYPE_KEYWORDS[room.value]
  IN [c \in 1 .. Len(names) |-> normalizeForSearch(names[c])]

AvailabilityKeywords ==
  { normalizeForSearch(POSITIVE_KEYWORDS[k]) : k \in 1 .. Len(POSITIVE_KEYWORDS) }
    \cup
  { normalizeForSearch(NEGATIVE_KEYWORDS[k]) : k \in 1 .. Len(NEGATIVE_KEYWORDS) }

\* the half-open window [lo, hi) around the occurrence at i, clipped
WindowLo(i, radius) == IF i - radius < 0 THEN 0 ELSE i - radius

WindowHi(text, i, keyword, radius) ==
  IF i + Len(keyword) + radius > Len(text) THEN Len(text)
  ELSE i + Len(keyword) + radius

\* some availability keyword lies wholly inside [lo, hi) of text
KeywordInside(text, lo, hi) ==
  \E signal \in AvailabilityKeywords \ { << >> } :
    \E j \in lo .. (hi - Len(signal)) :
      \A k \in 1 .. Len(signal) : text[j + k] = signal[k]

\* some occurrence of some keyword of the room has an availability keyword
\* inside its window
SignalNearRoom(text, room, radius) ==
  \E c \in 1 .. Len(RoomKeywords(room)) :
    /\ RoomKeywords(room)[c] # << >>
    /\ \E i \in Occurrences(text, RoomKeywords(room)[c]) :
         KeywordInside(text, WindowLo(i, radius),
                       WindowHi(text, i, RoomKeywords(room)[c], radius))

RoomMentioned(text, room) ==
  \E c \in 1 .. Len(RoomKeywords(room)) :
    /\ RoomKeywords(room)[c] # << >>
    /\ Occurrences(text, RoomKeywords(room)[c]) # { }

\* C13: the windowed search is bounded by its radius: it returns unknown
\* whenever no availability keyword lies inside the clipped window
\* [i - R, i + len(keyword) + R) of any occurrence i of any keyword of the
\* room, with R = 160 in the multi-train search and R = 40 in the
\* single-train search, whatever the haystack holds elsewhere.
C13_WindowBounded ==
  /\ fn = "resolveRoomAvailabilityFromHtml"
       => \/ SignalNearRoom(arg.normalizedBody, arg.room, 160)
          \/ ret.status = "unknown"
  /\ fn = "resolveRoomAvailability"
       => \/ SignalNearRoom(arg.normalizedBody, arg.room, 40)
          \/ ret = "unknown"

\* the room is mentioned, an availability keyword stands just outside the
\* window of every mention, and the search returned unknown
C13_Witness ==
  /\ fn = "resolveRoomAvailabilityFromHtml"
  /\ RoomMentioned(arg.normalizedBody, arg.room)
  /\ KeywordInside(arg.normalizedBody, 0, Len(arg.normalizedBody))
  /\ ~ SignalNearRoom(arg.normalizedBody, arg.room, 160)
  /\ ret.status = "unknown"

\* the same case in the single-train search
C13_SingleTrainCase ==
  /\ fn = "resolveRoomAvailability"
  /\ RoomMentioned(arg.normalizedBody, arg.room)
  /\ KeywordInside(arg.normalizedBody, 0, Len(arg.normalizedBody))
  /\ ~ SignalNearRoom(arg.normalizedBody, arg.room, 40)
  /\ ret = "unknown"

\* the occurrences <<c, i>> of the room's keywords whose window classifies
\* as available or unavailable
DecisiveOccurrences(text, room) ==
  { p \in UNION { { << c, i >> : i \in Occurrences(text, RoomKeywords(room)[c]) } :
                    c \in { d \in 1 .. Len(RoomKeywords(room)) :
                              RoomKeywords(room)[d] # << >> } } :
      analyzeNormalizedText(
        SubSeq(text, WindowLo(p[2], 160) + 1,
               WindowHi(text, p[2], RoomKeywords(room)[p[1]], 160))).status
        # "unknown" }

\* the first of them: aliases in declared order, then haystack order
FirstDecisiveOccurrence(text, room) ==
  CHOOSE p \in DecisiveOccurrences(text, room) :
    \A q \in DecisiveOccurrences(text, room) :
      \/ p[1] < q[1]
      \/ p[1] = q[1] /\ p[2] <= q[2]

\* C14: the windowed search examines every occurrence of every keyword of
\* the room and returns the classification of the first occurrence whose
\* window is not unknown, the keywords taken in declared order (canonical
\* name first) and the occurrences of one keyword in haystack order; it
\* returns unknown only when no occurrence has such a window.
C14_FirstDecisiveOccurrence ==
  fn = "resolveRoomAvailabilityFromHtml" =>
    IF DecisiveOccurrences(arg.normalizedBody, arg.room) = { }
      THEN ret = [status |-> "unknown"]
      ELSE LET p == FirstDecisiveOccurrence(arg.normalizedBody, arg.room)
               analysis == analyzeNormalizedText(
                 SubSeq(arg.normalizedBody, WindowLo(p[2], 160) + 1,
                        WindowHi(arg.normalizedBody, p[2],
                                 RoomKeywords(arg.room)[p[1]], 160)))
           IN ret = [status |-> analysis.status, indicator |-> analysis.keyword]

\* the deciding occurrence is not the first occurrence of its keyword: an
\* earlier occurrence of the same keyword had an unknown window
C14_Witness ==
  /\ fn = "resolveRoomAvailabilityFromHtml"
  /\ DecisiveOccurrences(arg.normalizedBody, arg.room) # { }
  /\ ret.status # "unknown"
  /\ LET p == FirstDecisiveOccurrence(arg.normalizedBody, arg.room)
     IN \E i \in Occurrences(arg.normalizedBody, RoomKeywords(arg.room)[p[1]]) :
          i < p[2]

\* a keyword declared earlier decides although a keyword declared later
\* occurs before it in the haystack with a window of the other status
C14_DeclaredOrderCase ==
  /\ fn = "resolveRoomAvailabilityFromHtml"
  /\ DecisiveOccurrences(arg.normalizedBody, arg.room) # { }
  /\ LET p == FirstDecisiveOccurrence(arg.normalizedBody, arg.room)
     IN \E q \in DecisiveOccurrences(arg.normalizedBody, arg.room) :
          /\ q[1] > p[1]
          /\ q[2] < p[2]
          /\ ret.status #
               analyzeNormalizedText(
                 SubSeq(arg.normalizedBody, WindowLo(q[2], 160) + 1,
                        WindowHi(arg.normalizedBody, q[2],
                                 RoomKeywords(arg.room)[q[1]], 160))).status

(***************************************************************************)
(* Room lookup in the page.                                                *)
(***************************************************************************)
\* the rows of the search root that some keyword of the room locates
CandidateRows(searchRoot, room) ==
  { k \in 1 .. Len(searchRoot.rows) :
      \E c \in 1 .. Len(getRoomKeywordCandidates(room)) :
        /\ trim(getRoomKeywordCandidates(room)[c]) # << >>
        /\ includes(searchRoot.rows[k].innerText, getRoomKeywordCandidates(room)[c]) }

\* C15: all rows located by the keywords of the room are candidates of the
\* lookup: when the room has no form control in the page and any of these
\* rows resolves to available, the room resolves to available, even when a
\* row tried earlier resolves to unavailable.
C15_AnyAvailableRowWins ==
  (/\ fn = "resolveRoomAvailabilityFromPage"
   /\ radioLocator(arg.searchRoot, ROOM_TYPE_FORM_VALUES[arg.room.value]) = << >>
   /\ \E k \in CandidateRows(arg.searchRoot, arg.room) :
        extractAvailabilityFromRow(<< arg.searchRoot.rows[k] >>).status = "available")
    => ret.status = "available"

\* what the windowed search alone says about the room of a staged lookup
WindowedSearchOf(a) ==
  resolveRoomAvailabilityFromHtml(
    IF a.normalizedSectionHtml # << >> THEN a.normalizedSectionHtml
    ELSE a.normalizedBody,
    a.roomInfo)

LookupStages == { "formControlRow", "aliasRows", "windowedSearch" }

\* C12: every resolution the engine produces carries an indicator exactly when
\* its status is not unknown: the resolutions of the snapshot resolver, of
\* the windowed HTML search and of the page lookup in their field indicator,
\* the room status merged by checkAvailability in its field indicatorText,
\* which is then never empty.
C12_IndicatorIffDecided ==
  /\ fn \in { "resolveAvailabilityFromSnapshot", "resolveRoomAvailabilityFromHtml",
              "resolveRoomAvailabilityFromPage" }
       => ("indicator" \in DOMAIN ret <=> ret.status # "unknown")
  /\ fn = "roomStatus"
       => /\ "indicatorText" \in DOMAIN ret <=> ret.status # "unknown"
          /\ "indicatorText" \in DOMAIN ret => ret.indicatorText # << >>

\* a room the page lookup left unknown and the windowed search decided: the
\* merged status carries the keyword the search matched
C12_Witness ==
  /\ fn = "roomStatus"
  /\ resolveRoomAvailabilityFromPage(arg.searchRoot, arg.roomInfo).status = "unknown"
  /\ ret.status # "unknown"
  /\ "indicatorText" \in DOMAIN ret
  /\ ret.indicatorText = WindowedSearchOf(arg).indicator

\* C16: the stages of the room lookup run in a fixed order, each only when
\* all earlier ones left the room unknown: the row of the form control
\* first, the rows located by the keywords next, the windowed search last,
\* over the section HTML or, when that is empty, over the whole page; a
\* status that is not unknown is never replaced by a later stage.
C16_StagesInOrder ==
  [][/\ fn' = "formControlRow" => fn = "idle"
     /\ fn' = "aliasRows" => fn = "formControlRow" /\ ret.status = "unknown"
     /\ fn' = "windowedSearch"
          => /\ fn = "aliasRows" /\ ret.status = "unknown"
             /\ ret'.status = WindowedSearchOf(arg).status
     /\ fn' = "roomStatus" => fn \in LookupStages /\ ret'.status = ret.status
     /\ (fn \in LookupStages /\ ret.status # "unknown" /\ fn' # "idle")
          => fn' = "roomStatus" /\ ret'.status = ret.status
    ]_vars

\* the row of the form control decided the room although the windowed
\* search would have decided otherwise
C16_Witness ==
  /\ fn = "roomStatus"
  /\ formControlStage(arg.searchRoot, arg.roomInfo) # << >>
  /\ WindowedSearchOf(arg).status # "unknown"
  /\ ret.status # WindowedSearchOf(arg).status

\* the section HTML is empty and the whole page decided the room
C16_WholePageCase ==
  /\ fn = "windowedSearch"
  /\ arg.normalizedSectionHtml = << >>
  /\ ret.status # "unknown"

\* the rows located by the keywords decided after the form control row was
\* unknown
C16_AliasRowsCase ==
  /\ fn = "aliasRows"
  /\ radioLocator(arg.searchRoot, ROOM_TYPE_FORM_VALUES[arg.roomInfo.value]) # << >>
  /\ ret.status # "unknown"

\* the staged lookup pushes what lines 403-421 compute in one go
StagedLookupAgrees ==
  fn = "roomStatus" =>
    ret = roomStatusOf(arg.searchRoot, arg.normalizedSectionHtml,
                       arg.normalizedBody, arg.roomInfo)

(***************************************************************************)
(* checkAvailability.                                                      *)
(***************************************************************************)
\* the room type is requested, defined, and the lookup finds it available
\* on the page the i-th train has loaded in the current attempt
AvailableOnTrain(roomType, i) ==
  /\ \E r \in 1 .. Len(settings.roomTypes) : settings.roomTypes[r] = roomType
  /\ \E d \in 1 .. Len(ROOM_TYPES) :
       /\ ROOM_TYPES[d].value = roomType
       /\ pages[i] # << >>
       /\ roomStatusOf(pages[i][1].searchRoot,
                       normalizeForSearch(pages[i][1].sectionHtml),
                       normalizeForSearch(pages[i][1].content),
                       ROOM_TYPES[d]).status = "available"

AvailableSomewhere ==
  { roomType \in RequestedRoomTypes :
      \E i \in 1 .. Len(pages) : AvailableOnTrain(roomType, i) }

\* the call returned from an attempt that completed
Completed == pc = "returned" /\ attempt <= maxRetries

\* the call returned after all attempts failed
Exhausted == pc = "returned" /\ attempt > maxRetries

\* C17: when an attempt completes, availableRooms holds exactly the
\* requested and defined room types that are available on at least one of
\* the searched trains, each once, and hasAvailability tells whether it is
\* not empty.
C17_AvailableRoomsExact ==
  Completed =>
    /\ Len(pages) = Len(determineTrainsToSearch(settings.departureStation,
                                                settings.arrivalStation))
    /\ { result[1].availableRooms[k] : k \in 1 .. Len(result[1].availableRooms) }
         = AvailableSomewhere
    /\ \A k, l \in 1 .. Len(result[1].availableRooms) :
         result[1].availableRooms[k] = result[1].availableRooms[l] => k = l
    /\ result[1].hasAvailability <=> result[1].availableRooms # << >>

\* a room available on both searched trains, reported once
C17_Witness ==
  /\ Completed
  /\ Len(pages) = 2
  /\ \E roomType \in RequestedRoomTypes :
       /\ AvailableOnTrain(roomType, 1)
       /\ AvailableOnTrain(roomType, 2)
       /\ result[1].availableRooms = << roomType >>
  /\ result[1].hasAvailability

\* the first requested room type is not defined and is left out
C17_UndefinedRoomCase ==
  /\ Completed
  /\ Len(settings.roomTypes) = 2
  /\ settings.roomTypes[1] = "suite"
  /\ result[1].availableRooms = << settings.roomTypes[2] >>

AttemptSteps == { "launch", "context", "train", "close", "finish", "catch", "delay" }

\* an upper bound of the steps the call can still take: the attempts left
\* count sixteen each, the steps left in the running attempt one each
StepsLeft ==
  IF pc = "returned" THEN 0
  ELSE 16 * (maxRetries + 1 - attempt)
         + (CASE pc = "entry" -> 0
              [] pc = "launch" -> 10
              [] pc = "context" -> 9
              [] pc = "train" -> 6 + (Len(trains) - trainIndex)
              [] pc = "close" -> 5
              [] pc = "finish" -> 4
              [] pc = "catch" -> 3
              [] pc = "delay" -> 2)

\* C18: the retry budget is fixed: attempts are numbered 1 to maxRetries,
\* attempt k + 1 starts only after attempt k failed, nothing happens after
\* the call returned, the wait of three seconds is started only between two
\* attempts and never after the last one, and the call always returns: each
\* step lowers a bound of the steps left, and before the return some step
\* is always possible.
C18_RetryBudget ==
  /\ [](/\ pc \in AttemptSteps => attempt \in 1 .. maxRetries
        /\ pc = "delay" => attempt < maxRetries
        /\ Completed => delays = attempt - 1
        /\ Exhausted => delays = (IF maxRetries = 0 THEN 0 ELSE maxRetries - 1)
        /\ StepsLeft >= 0
        /\ pc # "returned" => ENABLED (Enter \/ Launch \/ OpenPages \/ Throw
                                         \/ ClosePages \/ Finish \/ Catch \/ Delay))
  /\ [][/\ (pc # "entry" /\ attempt' # attempt)
             => attempt' = attempt + 1 /\ pc \in { "catch", "delay" }
        /\ delays' # delays
             => /\ delays' = delays + 1
                /\ pc = "delay" /\ pc' = "launch"
                /\ attempt' = attempt + 1
        /\ (pc' = "launch" /\ pc # "entry") => pc = "delay"
        /\ StepsLeft' < StepsLeft
       ]_vars

\* the last of several attempts completed after every earlier one failed and
\* was followed by one wait
C18_Witness ==
  /\ Completed
  /\ maxRetries >= 2
  /\ attempt = maxRetries
  /\ delays = maxRetries - 1

\* C19: checkAvailability never raises; when all attempts failed it returns
\* hasAvailability false with no rooms; and a result holds no room status of
\* an attempt that failed: every room it lists is available on a page of the
\* attempt that completed.
C19_NoRaiseNoLeak ==
  /\ pc # "raised"
  /\ Exhausted => result = << [hasAvailability |-> FALSE, availableRooms |-> << >>] >>
  /\ Completed =>
       \A k \in 1 .. Len(result[1].availableRooms) :
         result[1].availableRooms[k] \in AvailableSomewhere
  /\ pc = "returned" => Len(result) = 1

\* all attempts failed, the last one after it had found a room available on
\* the first train, and the result lists nothing
C19_Witness ==
  /\ Exhausted
  /\ maxRetries >= 2
  /\ trainResults # << >>
  /\ \E s \in 1 .. Len(trainResults[1].roomStatuses) :
       trainResults[1].roomStatuses[s].status = "available"
  /\ result[1].availableRooms = << >>

\* an attempt completed without rooms after an attempt before it failed
C19_RetryCase ==
  /\ Completed
  /\ attempt >= 2
  /\ ~ result[1].hasAvailability

(***************************************************************************)
(* The monitoring loop.                                                    *)
(***************************************************************************)
\* C20: the monitoring loop serializes checks: no call of checkAvailability
\* starts while an earlier one is still in progress, so at most one is in
\* progress at any time.
C20_ChecksSerialized ==
  /\ checking <= 1
  /\ [][checksStarted' # checksStarted => checking = 0]_vars

(***************************************************************************)
(* The keyword-entry tables.                                               *)
(***************************************************************************)
KeptKeywords(keywords) ==
  SelectSeq(keywords, LAMBDA raw : normalizeForSearch(raw) # << >>)

EntriesWellFormed(entries) ==
  \A i \in 1 .. Len(entries) :
    /\ entries[i].normalized # << >>
    /\ entries[i].normalized = normalizeForSearch(entries[i].raw)

\* C21: every entry of the POSITIVE and NEGATIVE keyword-entry tables has a
\* non-empty normalized form: createKeywordEntries keeps, in declared order,
\* exactly the keywords whose normalized form is not empty, and a keyword the
\* classifier reports never normalizes to the empty string.  The tables are
\* definitions without a writer: no step changes them.
C21_NoEmptyKeywordEntries ==
  /\ EntriesWellFormed(POSITIVE_KEYWORD_ENTRIES)
  /\ EntriesWellFormed(NEGATIVE_KEYWORD_ENTRIES)
  /\ fn = "createKeywordEntries" =>
       /\ EntriesWellFormed(ret)
       /\ [i \in 1 .. Len(ret) |-> ret[i].raw] = KeptKeywords(arg)
  /\ (fn = "analyzeTextForAvailability" /\ "keyword" \in DOMAIN ret) =>
       normalizeForSearch(ret.keyword) # << >>

\* a list with a kept keyword after a discarded one
C21_Witness ==
  /\ fn = "createKeywordEntries"
  /\ Len(arg) = 2
  /\ Len(ret) = 1
  /\ ret[1].raw = arg[2]

\* the local time of day of an instant, in minutes since midnight
MinuteOfDay(instant) == (instant % SecondsPerDay) \div 60

\* 23:50 to 00:05, both minutes included
InMaintenanceWindow(instant) ==
  \/ MinuteOfDay(instant) >= 23 * 60 + 50
  \/ MinuteOfDay(instant) <= 5

\* C22: no availability check is started while the local clock is inside the
\* maintenance window 23:50 to 00:05, both ends included: a call of
\* performCheck, by the initial check or by an interval tick, calls
\* checkAvailability exactly when the clock is outside the window, so ticks
\* after the window has ended perform checks again.
C22_NoCheckInMaintenance ==
  /\ checksStarted > 0 => ~ InMaintenanceWindow(lastCheckAt)
  /\ [][performChecks' # performChecks =>
          IF InMaintenanceWindow(now)
            THEN checksStarted' = checksStarted /\ checking' = checking
            ELSE /\ checksStarted' = checksStarted + 1
                 /\ checking' = checking + 1
                 /\ lastCheckAt' = now]_vars
  /\ [][checksStarted' # checksStarted => performChecks' # performChecks]_vars

\* a tick at 00:06:00 has started a check after a call of performCheck inside
\* the window started none
C22_Witness ==
  /\ checksStarted > 0
  /\ performChecks > checksStarted
  /\ lastCheckAt % SecondsPerDay = 360
  /\ checking > 0

\* the first 01:50:00 strictly after an instant
FirstShutdownAfter(instant) ==
  CHOOSE t \in instant + 1 .. instant + SecondsPerDay :
    t % SecondsPerDay = 3600 + 50 * 60

C23_Armed ==
  [][(shutdownTimer = "unset" /\ shutdownTimer' = "pending") =>
       /\ shutdownTime' = FirstShutdownAfter(now)
       /\ shutdownTime' - now > 0
       /\ shutdownTime' - now <= SecondsPerDay]_vars

C23_Fired ==
  [][(shutdownTimer = "pending" /\ shutdownTimer' = "fired") =>
       /\ interval' = "cleared"
       /\ pendingMaintenance' = 0
       /\ shutdownNotices' = Append(shutdownNotices, foundCount)]_vars

C23_Exit == shutdownTimer = "fired" => exitCode \in { "running", "0" }

\* C23: auto-shutdown is armed for the first 01:50:00 local time strictly
\* after the start instant, so its delay is positive and at most 24 hours;
\* when it fires, the check interval and any pending maintenance timer are
\* cancelled, the shutdown notification carrying the found count is sent,
\* and the process exits with code 0.
C23_AutoShutdown == C23_Armed /\ C23_Fired /\ []C23_Exit

\* every signal so far was delivered to the handler of line 239
Handled == sigints > 0 /\ exitCode # "SIGINT"

C24_Cancelled ==
  [][(sigints' # sigints /\ monitor = "armed") =>
       /\ interval' = "cleared"
       /\ shutdownTimer' # "pending"
       /\ shutdownNotices' = Append(shutdownNotices, foundCount)
       /\ exitCode' = "running"]_vars

C24_MaintenanceCancelled ==
  [][(sigints' # sigints /\ monitor = "armed") => pendingMaintenance' = 0]_vars

C24_Once == Handled => Len(shutdownNotices) = 1

C24_Exit == Handled => exitCode \in { "running", "0" }

C24_NoNewCheck == [][Handled => checksStarted' = checksStarted]_vars

\* C24: on SIGINT once the monitoring loop is armed, the check interval, the
\* shutdown timer and any pending maintenance timer are cancelled, the
\* shutdown notification is sent once, the process exits with code 0 also
\* when the delivery of that notification fails, and no new check starts
\* after the signal.
C24_Sigint ==
  /\ C24_Cancelled
  /\ C24_MaintenanceCancelled
  /\ []C24_Once
  /\ []C24_Exit
  /\ C24_NoNewCheck

C25_NotifiedIffFound ==
  /\ [][checksCompleted' # checksCompleted =>
          IF lastCheck'.hasAvailability
            THEN /\ notifyCalls' = notifyCalls + 1
                 /\ lastNotify' = lastCheck'.availableRooms
            ELSE notifyCalls' = notifyCalls]_vars
  /\ [][notifyCalls' # notifyCalls => checksCompleted' # checksCompleted]_vars

C25_FoundCount == foundCount = checksFound

C25_Reported ==
  [][Len(shutdownNotices') > Len(shutdownNotices) =>
       shutdownNotices'[Len(shutdownNotices')] = checksFound]_vars

C25_Continues ==
  [][notifying' < notifying => (exitCode' = "running" /\ monitor' = "armed")]_vars

\* C25: for every check the monitor performs, notifyAvailability is called
\* exactly when the result has hasAvailability true, with the availableRooms
\* of that result, and monitoring continues afterwards; foundCount is at any
\* time the number of completed checks that found availability, and it is
\* the value the shutdown notification reports.
C25_NotifyAndCount ==
  /\ C25_NotifiedIffFound
  /\ []C25_FoundCount
  /\ C25_Reported
  /\ C25_Continues

\* C29: a termination event that arrives while the initial availability check
\* is still running, the auto-shutdown timer firing or SIGINT, is handled
\* like one arriving later: the shutdown notification is sent and the
\* process goes on to exit with code 0.
C29_TerminationDuringInitialCheck ==
  /\ [][(monitor = "initialCheck"
          /\ (sigints' # sigints
              \/ (shutdownTimer = "pending" /\ shutdownTimer' = "fired"))) =>
          /\ shutdownNotices' = Append(shutdownNotices, foundCount)
          /\ exitCode' = "running"]_vars
  /\ [](exitCode \in { "1", "SIGINT" } => monitor # "initialCheck")

(***************************************************************************)
(* The trains to search.                                                   *)
(***************************************************************************)
CommonSection == { COMMON_ROUTE_STATIONS[i] : i \in 1 .. Len(COMMON_ROUTE_STATIONS) }

BothTrains == << "seto", "izumo" >>

\* C26 as stated: a non-empty list for every pair: both trains when both
\* stations are on the common section, only seto when either station is 高松,
\* only izumo when either station is 出雲市, and both trains otherwise.
C26_TrainsByStation ==
  fn = "determineTrainsToSearch" =>
    LET departure == arg[1]
        arrival == arg[2]
        common == departure \in CommonSection /\ arrival \in CommonSection
        takamatsu == departure = TAKAMATSU \/ arrival = TAKAMATSU
        izumoshi == departure = IZUMOSHI \/ arrival = IZUMOSHI
    IN /\ ret # << >>
       /\ common => ret = BothTrains
       /\ takamatsu => ret = << "seto" >>
       /\ izumoshi => ret = << "izumo" >>
       /\ ~ (common \/ takamatsu \/ izumoshi) => ret = BothTrains

\* C26, amended: a non-empty list for every pair: both trains when both
\* stations are on the common section; otherwise only seto when either
\* station is 高松; otherwise only izumo when either station is 出雲市; and
\* both trains in every other case.
C26_TrainsByStationInOrder ==
  fn = "determineTrainsToSearch" =>
    LET departure == arg[1]
        arrival == arg[2]
        common == departure \in CommonSection /\ arrival \in CommonSection
        takamatsu == departure = TAKAMATSU \/ arrival = TAKAMATSU
        izumoshi == departure = IZUMOSHI \/ arrival = IZUMOSHI
    IN /\ ret # << >>
       /\ common => ret = BothTrains
       /\ takamatsu => ret = << "seto" >>
       /\ (izumoshi /\ ~ takamatsu) => ret = << "izumo" >>
       /\ ~ (common \/ takamatsu \/ izumoshi) => ret = BothTrains

\* 出雲市 to 高松: both branch rules apply and the 高松 rule decides
C26_Witness ==
  /\ fn = "determineTrainsToSearch"
  /\ arg = << IZUMOSHI, TAKAMATSU >>
  /\ ret = << "seto" >>

\* a station outside the tables gets both trains
C26_UnlistedStationCase ==
  /\ fn = "determineTrainsToSearch"
  /\ arg[1] \notin CommonSection \cup { TAKAMATSU, IZUMOSHI }
  /\ arg[2] \in CommonSection
  /\ ret = BothTrains

(***************************************************************************)
(* Page navigation.                                                        *)
(***************************************************************************)
Greatest(S) == CHOOSE x \in S : \A y \in S : y <= x

\* C27: navigateToTrainPage tries ?train=<train>, #<train> and the bare form
\* URL in this order; it returns at the first URL whose navigation yields no
\* response object or an OK response, without trying later URLs; it raises
\* only when no candidate does so, re-raising the last navigation exception
\* if one occurred and a generic load-failure error otherwise.
C27_CandidateOrder ==
  fn = "navigateToTrainPage" =>
    LET urls == << << FORM_URL, "?train=", arg.train >>,
                   << FORM_URL, "#", arg.train >>,
                   << FORM_URL >> >>
        accepted == { i \in 1 .. 3 : arg.responses[i] \in { "null", "ok" } }
        thrown == { i \in 1 .. 3 : arg.responses[i] = "throws" }
    IN IF accepted # { }
         THEN /\ ret.kind = "returned"
              /\ ret.visited = SubSeq(urls, 1, Least(accepted))
         ELSE /\ ret.kind = "raised"
              /\ ret.visited = urls
              /\ ret.error = IF thrown # { }
                               THEN [name |-> "TimeoutError",
                                     url |-> urls[Greatest(thrown)]]
                               ELSE [name |-> "Error", url |-> << >>]

\* the second candidate answers without a response object after the first
\* threw: the call returns and the bare URL is not tried
C27_Witness ==
  /\ fn = "navigateToTrainPage"
  /\ arg.responses[1] = "throws"
  /\ arg.responses[2] = "null"
  /\ ret.kind = "returned"
  /\ Len(ret.visited) = 2

\* the exception of the second candidate is raised although the third
\* candidate answered, with a response that is not OK
C27_LastExceptionCase ==
  /\ fn = "navigateToTrainPage"
  /\ arg.responses = << "throws", "throws", "notOk" >>
  /\ ret.kind = "raised"
  /\ ret.error.url = << FORM_URL, "#", arg.train >>

(***************************************************************************)
(* The multiple-choice prompt.                                             *)
(***************************************************************************)
\* an entry that is the number of an offered item: decimal digits, possibly
\* padded with spaces, with a value from 1 to the number of items
ValidEntry(entry, items) ==
  LET digits == trim(entry)
  IN /\ digits # << >>
     /\ \A i \in 1 .. Len(digits) : isDigit(digits[i])
     /\ digitsValue(digits, << >>)[1] \in 1 .. Len(items)

\* the entries of an answer line
Entries(answer) == split(answer, COMMA)

C28_NoRaise == fn = "selectMultipleFromList" => ret.kind # "raised"

C28_Returned ==
  (fn = "selectMultipleFromList" /\ ret.kind = "returned") =>
    /\ trim(arg[Len(ret.said)]) = << >>
    /\ ret.selected # << >>
    /\ \A i, j \in 1 .. Len(ret.selected) :
         ret.selected[i] = ret.selected[j] => i = j
    /\ \A i \in 1 .. Len(ret.selected) :
         \E k \in 1 .. Len(ROOM_TYPES) : ROOM_TYPES[k].value = ret.selected[i]
    /\ \A n \in 1 .. Len(ret.said) - 1 :
         trim(arg[n]) = << >> => ret.said[n] = "selectAtLeastOne"

C28_Rejected ==
  fn = "selectMultipleFromList" =>
    \A n \in 1 .. Len(ret.said) :
      (/\ trim(arg[n]) # << >>
       /\ \E k \in 1 .. Len(Entries(arg[n])) :
            ~ ValidEntry(Entries(arg[n])[k], ROOM_TYPES))
        => (ret.said[n] = "invalidNumber" /\ (n < Len(ret.said) \/ ret.kind = "waiting"))

\* C28: selectMultipleFromList returns only after an empty line is entered
\* with at least one item selected; the returned list is non-empty, has no
\* duplicates and holds only values of the offered items; an entry that is
\* not a valid item number, out of range or not a number, is rejected with
\* a message and the prompt repeats, without raising.
C28_PromptContract ==
  /\ C28_NoRaise
  /\ C28_Returned
  /\ C28_Rejected

\* C30: across any sequence of successful and failed attempts, provided no
\* call of browser.close() has failed, checkAvailability holds at most one
\* open browser: an attempt launches one only when none is open, and none is
\* open when the call returns.
C30_OneBrowser ==
  failedCloses = 0 =>
    /\ openBrowsers <= 1
    /\ openBrowsers = (IF browser = "set" THEN 1 ELSE 0)
    /\ pc \in { "entry", "launch", "delay", "returned" } => openBrowsers = 0

\* the call returns from its third attempt after two failed attempts whose
\* browsers were closed
C30_Witness ==
  /\ failedCloses = 0
  /\ pc = "returned"
  /\ attempt = 3
  /\ Completed
  /\ openBrowsers = 0

\* with a failed close a second browser is launched while the first is open
C30_FailedCloseCase ==
  /\ failedCloses > 0
  /\ openBrowsers = 2
=============================================================================
